---- MODULE Spec2Model ----
(***************************************************************************)
(* Multi-file recordings of resistics-readers: the data table that maps a  *)
(* recording's samples onto its data files or records                      *)
(* (resistics_readers/multifile.py), the validation of the per-file        *)
(* metadata, and the readers built on them.                                *)
(*                                                                         *)
(* A pandas DataFrame is a sequence of rows; a row is a record whose       *)
(* fields are the columns.  Adding a column is r @@ [col |-> v].  Times    *)
(* are integers counted in ticks; a sampling frequency fs has a sample     *)
(* period of TicksPerSecond \div fs ticks.                                 *)
(***************************************************************************)
EXTENDS Integers, Sequences, FiniteSets, TLC

VARIABLES
    metadata_list,  \* the per-file metadata handed to the validators
    data_table,     \* the data table (index) held by the reader
    op,             \* the last call: its name, arguments and outcome
    first_call,     \* the first samples_to_sources call of the session
    repeated,       \* TRUE once the first call has been made a second time
    reader          \* the read_data call in progress: its position, the
                    \* rows to read, the cursor, the buffer, the open files

vars == <<metadata_list, data_table, op, first_call, repeated, reader>>

(***************************************************************************)
(* Bounds of the model.                                                    *)
(***************************************************************************)
MaxUnits == 3       \* sources in a data table
MaxCount == 2       \* samples in one source
MaxHoleUnits == 2   \* sources in a data table loaded with holes
MaxHole == 1        \* samples missing in front of a source
MaxSessionUnits == 2 \* sources in the data table of a recorded session
MaxSessionCount == 1 \* samples in one source of that table
MaxFiles == 3       \* files in a metadata list
MaxHeaderFiles == 2 \* files in a metadata list of differing headers
MaxTime == 3        \* latest first_time of a file, in ticks
MaxFileSamples == 2 \* samples in one file of a metadata list
TicksPerSecond == 2 \* resolution of the times

(***************************************************************************)
(* Helpers.                                                                *)
(***************************************************************************)
Max(a, b) == IF a >= b THEN a ELSE b
Min(a, b) == IF a <= b THEN a ELSE b

SeqsUpTo(S, n) == UNION {[1..k -> S] : k \in 0..n}

RECURSIVE ColumnSum(_, _, _)
\* Series.sum() of the first k entries of a column
ColumnSum(df, col, k) ==
    IF k = 0 THEN 0 ELSE ColumnSum(df, col, k - 1) + df[k][col]

NoCall == [name |-> "none", args |-> <<>>, status |-> "none",
           error |-> <<>>, value |-> <<>>, log |-> <<>>]

\* no read_data call has been made
NoRead == [pc |-> "Idle", args |-> <<>>, df_to_read |-> <<>>, row |-> 0,
           sample |-> 0, data |-> <<>>, open |-> {}, data_bytes |-> <<>>,
           data_read |-> <<>>, writes |-> <<>>, scaled |-> <<>>,
           error |-> <<>>]

(***************************************************************************)
(* multifile.add_cumulative_samples                                        *)
(***************************************************************************)
\* the running sum without the shift
CumsumUnshifted(df, i) == ColumnSum(df, "n_samples", i)

\* df["n_samples"].cumsum().shift(1).fillna(value=0): the running sum of the
\* rows before row i, 0 for the first row
ShiftedCumsum(df, i) == IF i = 1 THEN 0 ELSE ColumnSum(df, "n_samples", i - 1)

add_cumulative_samples(df) ==
    [i \in 1..Len(df) |->
        LET first == ShiftedCumsum(df, i)
        IN  [first_sample |-> first,
             last_sample |-> first + df[i].n_samples - 1] @@ df[i]]

(***************************************************************************)
(* multifile.samples_to_sources                                            *)
(***************************************************************************)
\* df[~(df["first_sample"] > to_sample)] then df[~(df["last_sample"] < from_sample)]
SelectSources(df, from_sample, to_sample) ==
    LET notAfter == SelectSeq(df, LAMBDA r : ~(r.first_sample > to_sample))
    IN  SelectSeq(notAfter, LAMBDA r : ~(r.last_sample < from_sample))

\* read_from without the test for sources that start inside the range
ReadFromUnclamped(r, from_sample) == from_sample - r.first_sample

\* read_from: 0, corrected where the source starts before from_sample
ReadFrom(r, from_sample) ==
    IF r.first_sample < from_sample THEN from_sample - r.first_sample ELSE 0

\* read_to taken one sample short where the source ends after to_sample
ReadToOffByOne(r, to_sample) ==
    IF r.last_sample > to_sample THEN to_sample - r.first_sample - 1
    ELSE r.n_samples - 1

\* read_to: n_samples - 1, corrected where the source ends after to_sample
ReadTo(r, to_sample) ==
    IF r.last_sample > to_sample THEN to_sample - r.first_sample
    ELSE r.n_samples - 1

AddReadColumns(df, from_sample, to_sample) ==
    [i \in 1..Len(df) |->
        LET rf == ReadFrom(df[i], from_sample)
            rt == ReadTo(df[i], to_sample)
        IN  [read_from |-> rf, read_to |-> rt,
             n_samples_read |-> rt - rf + 1] @@ df[i]]

\* the total never checked
SamplesMismatchIgnored(sum_files, expected) == FALSE

\* the check of the total against the expected number of samples
SamplesMismatch(sum_files, expected) == sum_files # expected

samples_to_sources(df, from_sample, to_sample) ==
    LET rows == AddReadColumns(SelectSources(df, from_sample, to_sample),
                               from_sample, to_sample)
        sum_files == ColumnSum(rows, "n_samples_read", Len(rows))
        expected == to_sample - from_sample + 1
    IN  IF SamplesMismatch(sum_files, expected)
        THEN [status |-> "raise",
              error |-> [type |-> "TimeDataReadError",
                         sum_files |-> sum_files, expected |-> expected],
              value |-> <<>>]
        ELSE [status |-> "ok", error |-> <<>>, value |-> rows]

\* the selection and the new columns applied to the caller's table itself
TableAfterInPlace(df, from_sample, to_sample) ==
    AddReadColumns(SelectSources(df, from_sample, to_sample),
                   from_sample, to_sample)

\* The caller's table after the call: the boolean selection makes a new
\* DataFrame, and the columns are added to that one
TableAfterSamplesToSources(df, from_sample, to_sample) == df

(***************************************************************************)
(* Per-file metadata (TimeMetadataSingle).  A channel name is the sequence *)
(* of its characters.                                                      *)
(***************************************************************************)
\* to_timedelta(1 / fs): the sample period in ticks
SamplePeriod(fs) == TicksPerSecond \div fs

Ex == <<"E", "x">>
Ey == <<"E", "y">>
ExEy == <<"E", "x", ",", " ", "E", "y">>
EyEx == <<"E", "y", ",", " ", "E", "x">>

\* ", ".join(chans)
RECURSIVE Join(_)
Join(chans) ==
    IF Len(chans) = 0 THEN <<>>
    ELSE IF Len(chans) = 1 THEN chans[1]
    ELSE chans[1] \o <<",", " ">> \o Join(Tail(chans))

\* The metadata of the file at place i of the list: n_chans is the length
\* of chans, last_time the time of the last of its n_samples samples
FileMetadata(i, fs, chans, first_time, n_samples) ==
    [data_file |-> <<"file", i>>, fs |-> fs, chans |-> chans,
     n_chans |-> Len(chans), first_time |-> first_time,
     last_time |-> first_time + (n_samples - 1) * SamplePeriod(fs),
     n_samples |-> n_samples]

(***************************************************************************)
(* multifile.validate_consistency                                          *)
(***************************************************************************)
MetadataReadError(message, values) ==
    [type |-> "MetadataReadError", message |-> message, values |-> values]

Returned(value) ==
    [status |-> "ok", error |-> <<>>, value |-> value, log |-> <<>>]

Raised(error, log) ==
    [status |-> "raise", error |-> error, value |-> <<>>, log |-> log]

\* set([", ".join(x.chans) for x in metadata_list])
SetChans(ml) == {Join(ml[i].chans) : i \in 1..Len(ml)}

validate_consistency(ml) ==
    LET set_fs == {ml[i].fs : i \in 1..Len(ml)}
        set_n_chans == {ml[i].n_chans : i \in 1..Len(ml)}
        set_chans == SetChans(ml)
    IN  IF Cardinality(set_fs) > 1
        THEN Raised(MetadataReadError("More than one fs", set_fs), <<>>)
        ELSE IF Cardinality(set_n_chans) > 1
        THEN Raised(MetadataReadError("Inconsistent number of channels",
                                      set_n_chans), <<>>)
        ELSE IF Cardinality(set_chans) > 1
        THEN Raised(MetadataReadError("Inconsistent channels", set_chans), <<>>)
        ELSE Returned(TRUE)

(***************************************************************************)
(* df.sort_values("first_time").  The rows keep their labels (the place of *)
(* the file in the list, from 0); the order of rows with equal first_time  *)
(* is whatever the sort leaves, so every ascending order is possible.  An  *)
(* order is a function p: p[k] is the place in the list, from 1, of the    *)
(* row at position k.                                                      *)
(***************************************************************************)
Orders(n) == {p \in [1..n -> 1..n] : {p[i] : i \in 1..n} = 1..n}

\* the frame left in the order of the list
Unsorted(ml) == {[k \in 1..Len(ml) |-> k]}

SortValues(ml) ==
    {p \in Orders(Len(ml)) :
        \A k \in 1..(Len(ml) - 1) :
            ml[p[k]].first_time <= ml[p[k + 1]].first_time}

(***************************************************************************)
(* multifile.validate_continuous                                           *)
(***************************************************************************)
\* (df["first_time"] - df.shift(1)["last_time"]).dropna() - dt, for the row
\* at position k >= 2 of the sorted frame
TimeChk(ml, p, k) ==
    ml[p[k]].first_time - ml[p[k - 1]].last_time - SamplePeriod(ml[1].fs)

\* the positions of the rows of gaps, in order
GapPositions(ml, p) ==
    SelectSeq([k \in 1..(Len(ml) - 1) |-> k + 1],
              LAMBDA k : TimeChk(ml, p, k) > 0)

\* data_files[label]: data_files is in sorted order and label, a row label
\* from -1 up, is used as a position in it (-1 is the last position)
DataFilesAt(ml, p, label) ==
    IF label = -1 THEN ml[p[Len(ml)]].data_file ELSE ml[p[label + 1]].data_file

\* the table logged when gaps are found: gaps.index holds the row labels
GapInfo(ml, p) ==
    LET gaps == GapPositions(ml, p)
    IN  [g \in 1..Len(gaps) |->
            LET label == p[gaps[g]] - 1
            IN  [From |-> DataFilesAt(ml, p, label - 1),
                 To |-> DataFilesAt(ml, p, label),
                 Gap |-> TimeChk(ml, p, gaps[g])]]

\* validate_continuous without the test for an empty list
ValidateContinuousNoEmptyTest(ml, p) ==
    IF Len(GapPositions(ml, p)) > 0
    THEN Raised(MetadataReadError("Gaps found, unable to read data", {}),
                GapInfo(ml, p))
    ELSE Returned(TRUE)

\* p is the order sort_values left the rows in
validate_continuous(ml, p) ==
    IF Len(ml) = 0
    THEN Raised(MetadataReadError("No metadata in list", {}), <<>>)
    ELSE IF Len(ml) = 1 THEN Returned(TRUE)
    ELSE IF Len(GapPositions(ml, p)) > 0
    THEN Raised(MetadataReadError("Gaps found, unable to read data", {}),
                GapInfo(ml, p))
    ELSE Returned(TRUE)

(***************************************************************************)
(* TimeReaderB423._generate_table (the scaling and data_byte_start columns *)
(* are carried along unchanged and left out here)                          *)
(***************************************************************************)
TableRow(x) ==
    [data_file |-> x.data_file, first_time |-> x.first_time,
     last_time |-> x.last_time, n_samples |-> x.n_samples]

\* p is the order sort_values left the rows in
generate_table(ml, p) ==
    IF Len(ml) = 0
    THEN Raised([type |-> "IndexError", message |-> "list index out of range",
                 values |-> {}], <<>>)
    ELSE Returned(add_cumulative_samples([k \in 1..Len(ml) |-> TableRow(ml[p[k]])]))

(***************************************************************************)
(* The data tables a reader can hold.                                      *)
(***************************************************************************)
RawTable(counts) ==
    [i \in 1..Len(counts) |-> [data_file |-> i, n_samples |-> counts[i]]]

BuiltTables ==
    {add_cumulative_samples(RawTable(c)) : c \in SeqsUpTo(0..MaxCount, MaxUnits)}

SessionTables ==
    {add_cumulative_samples(RawTable(c)) :
        c \in SeqsUpTo(0..MaxSessionCount, MaxSessionUnits)}

\* Scenario A: two files of 100 and 50 samples
ScenarioATable == add_cumulative_samples(RawTable(<<100, 50>>))

RECURSIVE HoleFirst(_, _, _)
\* first sample of source i when holes[j] samples are missing before source j
HoleFirst(counts, holes, i) ==
    IF i = 1 THEN holes[1]
    ELSE HoleFirst(counts, holes, i - 1) + counts[i - 1] + holes[i]

\* A table read back from stored metadata whose sample columns leave holes
HoleTable(counts, holes) ==
    [i \in 1..Len(counts) |->
        [data_file |-> i, n_samples |-> counts[i],
         first_sample |-> HoleFirst(counts, holes, i),
         last_sample |-> HoleFirst(counts, holes, i) + counts[i] - 1]]

HoleTables ==
    UNION {{HoleTable(c, h) : h \in [1..Len(c) -> 0..MaxHole]} :
           c \in SeqsUpTo(0..MaxCount, MaxHoleUnits)}

TotalSamples(df) == IF Len(df) = 0 THEN 0 ELSE df[Len(df)].last_sample + 1

\* The samples a request is made at: around the edges and the middle of
\* every source, and one before and one past the table
SamplePoints(df) ==
    {-1, 0, TotalSamples(df)} \cup
    UNION {{df[i].first_sample - 1, df[i].first_sample,
            (df[i].first_sample + df[i].last_sample + 1) \div 2,
            df[i].last_sample, df[i].last_sample + 1} : i \in 1..Len(df)}

(***************************************************************************)
(* Actions.                                                                *)
(***************************************************************************)
\* One call of samples_to_sources on the reader's data table
Call(from_sample, to_sample) ==
    /\ from_sample <= to_sample
    /\ op' = [name |-> "samples_to_sources",
              args |-> <<from_sample, to_sample>>, log |-> <<>>]
             @@ samples_to_sources(data_table, from_sample, to_sample)
    /\ data_table' =
           TableAfterSamplesToSources(data_table, from_sample, to_sample)

\* A read resolves its sample range once, on the table as built or loaded
SamplesToSources ==
    /\ op = NoCall
    /\ \E from_sample \in SamplePoints(data_table) :
       \E to_sample \in SamplePoints(data_table) :
        /\ Call(from_sample, to_sample)
        /\ UNCHANGED <<metadata_list, first_call, repeated, reader>>

\* The same call in a session of calls, with the session's first call recorded
SessionCall ==
    \E from_sample \in SamplePoints(data_table) :
    \E to_sample \in SamplePoints(data_table) :
        /\ Call(from_sample, to_sample)
        /\ first_call' = IF first_call = NoCall THEN op' ELSE first_call
        /\ repeated' = (repeated \/ (first_call # NoCall /\ op'.args = first_call.args))
        /\ UNCHANGED <<metadata_list, reader>>

NoSession ==
    /\ metadata_list = <<>>
    /\ op = NoCall
    /\ first_call = NoCall
    /\ repeated = FALSE
    /\ reader = NoRead

Init ==
    /\ data_table \in BuiltTables \cup {ScenarioATable}
    /\ NoSession

Next == SamplesToSources

Spec == Init /\ [][Next]_vars

\* The same reader with a data table that may have holes
InitHoles ==
    /\ data_table \in BuiltTables \cup HoleTables
    /\ NoSession

SpecHoles == InitHoles /\ [][Next]_vars

\* A session of calls on one built data table
InitSession ==
    /\ data_table \in SessionTables
    /\ NoSession

NextSession == SessionCall

SpecSession == InitSession /\ [][NextSession]_vars

(***************************************************************************)
(* Reading the metadata of a directory of files: the list of per-file      *)
(* metadata comes in the order of the directory listing.                   *)
(***************************************************************************)
\* files of one sampling frequency and channel list, at any times counted
\* from the start of the earliest file
IsTimedList(ml) ==
    \E n \in 0..MaxFiles :
    \E t \in [1..n -> 0..MaxTime] :
    \E c \in [1..n -> 1..MaxFileSamples] :
        /\ n > 0 => \E i \in 1..n : t[i] = 0
        /\ ml = [i \in 1..n |->
                    FileMetadata(i, TicksPerSecond, <<Ex>>, t[i], c[i])]

ChanLists == {<<Ex>>, <<Ex, Ey>>, <<Ey, Ex>>, <<ExEy, Ex>>, <<Ex, EyEx>>}

\* files at successive times, of any sampling frequency and channel list
IsHeaderList(ml) ==
    \E n \in 0..MaxHeaderFiles :
    \E f \in [1..n -> {1, TicksPerSecond}] :
    \E ch \in [1..n -> ChanLists] :
        ml = [i \in 1..n |->
                 FileMetadata(i, f[i], ch[i], (i - 1) * TicksPerSecond, 1)]

\* Each validator is applied to the list as read, before any other call
ValidateConsistency ==
    /\ op = NoCall
    /\ op' = [name |-> "validate_consistency", args |-> <<>>]
             @@ validate_consistency(metadata_list)
    /\ UNCHANGED <<metadata_list, data_table, first_call, repeated, reader>>

ValidateContinuous ==
    /\ op = NoCall
    /\ \E p \in SortValues(metadata_list) :
        /\ op' = [name |-> "validate_continuous", args |-> <<>>]
                 @@ validate_continuous(metadata_list, p)
        /\ UNCHANGED <<metadata_list, data_table, first_call, repeated, reader>>

GenerateTable ==
    /\ op = NoCall
    /\ \E p \in SortValues(metadata_list) :
        /\ op' = [name |-> "_generate_table", args |-> <<>>]
                 @@ generate_table(metadata_list, p)
        /\ UNCHANGED <<metadata_list, data_table, first_call, repeated, reader>>

InitBuild ==
    /\ IsTimedList(metadata_list) \/ IsHeaderList(metadata_list)
    /\ data_table = <<>>
    /\ op = NoCall
    /\ first_call = NoCall
    /\ repeated = FALSE
    /\ reader = NoRead

NextBuild == ValidateConsistency \/ ValidateContinuous \/ GenerateTable

SpecBuild == InitBuild /\ [][NextBuild]_vars

(***************************************************************************)
(* Properties of samples_to_sources.                                       *)
(***************************************************************************)
IsResolve == op.name = "samples_to_sources"
FromSample == op.args[1]
ToSample == op.args[2]

ReadTotal(rows) == ColumnSum(rows, "n_samples_read", Len(rows))

\* source i of the table holds sample s
Holds(df, i, s) == df[i].first_sample <= s /\ s <= df[i].last_sample

\* every sample of from_sample..to_sample lies in some source of the table
Covered(df, from_sample, to_sample) ==
    \A s \in from_sample..to_sample : \E i \in 1..Len(df) : Holds(df, i, s)

CoveredCount(df, from_sample, to_sample) ==
    Cardinality({s \in from_sample..to_sample :
                     \E i \in 1..Len(df) : Holds(df, i, s)})

ReadRow(r) == <<r.data_file, r.read_from, r.read_to, r.n_samples_read>>

\* C1: on a table built by add_cumulative_samples (sample counts >= 0), every
\* request with 0 <= from_sample <= to_sample <= total - 1 returns without
\* error and the n_samples_read of the returned rows sum to
\* to_sample - from_sample + 1.
C1_ReadTotalIsRequest ==
    (/\ IsResolve
     /\ 0 <= FromSample /\ FromSample <= ToSample
     /\ ToSample <= TotalSamples(data_table) - 1)
    => /\ op.status = "ok"
       /\ ReadTotal(op.value) = ToSample - FromSample + 1

\* a request over three sources, the middle one empty, has been resolved
C1_Witness ==
    /\ IsResolve /\ op.status = "ok"
    /\ Len(data_table) = 3 /\ data_table[2].n_samples = 0
    /\ FromSample = 0 /\ ToSample = TotalSamples(data_table) - 1
    /\ ReadTotal(op.value) = ToSample - FromSample + 1
    /\ ReadTotal(op.value) >= 2

\* C2: every emitted row has read_from = max(0, from_sample - first_sample),
\* read_to = min(n_samples - 1, to_sample - first_sample) and
\* n_samples_read = read_to - read_from + 1; the request [50, 149] on the
\* table of 100 and 50 samples gives (1, 50, 99, 50), (2, 0, 49, 50); a
\* request [k, k] for a valid k gives one row of one sample.
C2_ClippedBounds ==
    IsResolve =>
    /\ op.status = "ok" =>
         \A i \in 1..Len(op.value) :
            LET r == op.value[i]
            IN  /\ r.read_from = Max(0, FromSample - r.first_sample)
                /\ r.read_to = Min(r.n_samples - 1, ToSample - r.first_sample)
                /\ r.n_samples_read = r.read_to - r.read_from + 1
    /\ (data_table = ScenarioATable /\ op.args = <<50, 149>>) =>
         /\ op.status = "ok"
         /\ [i \in 1..Len(op.value) |-> ReadRow(op.value[i])]
                = <<(<<1, 50, 99, 50>>), (<<2, 0, 49, 50>>)>>
    /\ (/\ FromSample = ToSample /\ 0 <= FromSample
        /\ FromSample <= TotalSamples(data_table) - 1) =>
         /\ op.status = "ok"
         /\ Len(op.value) = 1
         /\ op.value[1].n_samples_read = 1

\* Scenario D has been resolved
C2_Witness ==
    /\ IsResolve /\ data_table = ScenarioATable /\ op.args = <<50, 149>>
    /\ op.status = "ok" /\ Len(op.value) = 2

\* C3: a request (from_sample <= to_sample) that the table does not fully
\* cover - past the last sample, before sample 0, an empty table, a hole
\* inside the range - raises TimeDataReadError with the expected and the
\* actual count; a returned row list always totals to_sample - from_sample + 1.
C3_UncoveredRaises ==
    IsResolve =>
    /\ ~Covered(data_table, FromSample, ToSample) =>
         /\ op.status = "raise"
         /\ op.error.type = "TimeDataReadError"
         /\ op.error.expected = ToSample - FromSample + 1
         /\ op.error.sum_files = CoveredCount(data_table, FromSample, ToSample)
    /\ op.status = "ok" => ReadTotal(op.value) = ToSample - FromSample + 1

\* a request across a hole between two sources has been refused
C3_Witness ==
    /\ IsResolve /\ op.status = "raise"
    /\ Len(data_table) = 2
    /\ data_table[1].n_samples > 0 /\ data_table[2].n_samples > 0
    /\ data_table[2].first_sample > data_table[1].last_sample + 1
    /\ FromSample = data_table[1].first_sample
    /\ ToSample = data_table[2].last_sample
    /\ op.error.sum_files < op.error.expected

C5_MinimalRows ==
    (IsResolve /\ op.status = "ok") =>
    /\ \A i \in 1..Len(data_table) :
          (\E j \in 1..Len(op.value) : op.value[j].data_file = data_table[i].data_file)
          <=> (\E s \in FromSample..ToSample : Holds(data_table, i, s))
    /\ \A j \in 1..Len(op.value) :
          LET r == op.value[j]
          IN  /\ 0 <= r.read_from /\ r.read_from <= r.read_to
              /\ r.read_to <= r.n_samples - 1

(***************************************************************************)
(* Properties of the metadata validation and of the table built from it.   *)
(***************************************************************************)
IsGenerate == op.name = "_generate_table"
IsContinuous == op.name = "validate_continuous"
IsConsistency == op.name = "validate_consistency"

OneFs(ml) == \A i \in 1..Len(ml) : ml[i].fs = ml[1].fs

\* the orders of the list in which first_time never decreases
AscendingOrders(ml) ==
    {p \in Orders(Len(ml)) :
        \A i, j \in 1..Len(ml) :
            i < j => ml[p[i]].first_time <= ml[p[j]].first_time}

\* C6: for any order of the files in the list, the table of _generate_table
\* (with add_cumulative_samples) lists the files in ascending first_time, and
\* first_sample[1] = 0, first_sample[k] = last_sample[k-1] + 1 and
\* last_sample[k] = first_sample[k] + n_samples[k] - 1: the spans are sorted
\* and do not overlap.
C6_TableSortedCumulative ==
    (IsGenerate /\ op.status = "ok") =>
    LET t == op.value
        n == Len(t)
    IN  /\ n = Len(metadata_list)
        /\ \A i \in 1..n : \E k \in 1..n : TableRow(metadata_list[i]) =
               [c \in {"data_file", "first_time", "last_time", "n_samples"}
                   |-> t[k][c]]
        /\ \A k \in 1..(n - 1) : t[k].first_time <= t[k + 1].first_time
        /\ t[1].first_sample = 0
        /\ \A k \in 2..n : t[k].first_sample = t[k - 1].last_sample + 1
        /\ \A k \in 1..n :
              t[k].last_sample = t[k].first_sample + t[k].n_samples - 1
        /\ \A j, k \in 1..n : j < k => t[j].last_sample < t[k].first_sample

\* a table has been built from three files listed latest first
C6_Witness ==
    /\ IsGenerate /\ op.status = "ok" /\ Len(metadata_list) = 3
    /\ metadata_list[1].first_time > metadata_list[2].first_time
    /\ metadata_list[2].first_time > metadata_list[3].first_time
    /\ op.value[1].data_file = metadata_list[3].data_file
    /\ op.value[3].first_sample > 0

\* C7 (as in the claim): for an empty list, validate_consistency,
\* validate_continuous and _generate_table all fail.
C7_EmptyListFailsEverywhere ==
    (metadata_list = <<>> /\ (IsConsistency \/ IsContinuous \/ IsGenerate))
    => op.status = "raise"

\* C7 (amended): for an empty list validate_continuous raises
\* MetadataReadError("No metadata in list") and _generate_table raises an
\* IndexError and returns no table, while validate_consistency returns True.
C7_EmptyListFailsInBuild ==
    metadata_list = <<>> =>
    /\ IsContinuous =>
         /\ op.status = "raise"
         /\ op.error.type = "MetadataReadError"
         /\ op.error.message = "No metadata in list"
    /\ IsGenerate => (op.status = "raise" /\ op.error.type = "IndexError")
    /\ IsConsistency => (op.status = "ok" /\ op.value = TRUE)

\* validate_continuous has refused an empty list
C7_Witness ==
    /\ metadata_list = <<>> /\ IsContinuous /\ op.status = "raise"

\* the values of a field over the list, channel lists as joined text
Observed(ml, field) ==
    IF field = "chans" THEN {Join(ml[i].chans) : i \in 1..Len(ml)}
    ELSE {ml[i][field] : i \in 1..Len(ml)}

Differs(ml, field) == \E i, j \in 1..Len(ml) : ml[i][field] # ml[j][field]

MessageOf(field) ==
    IF field = "fs" THEN "More than one fs"
    ELSE IF field = "n_chans" THEN "Inconsistent number of channels"
    ELSE "Inconsistent channels"

\* C8: validate_consistency returns True if and only if all files share one
\* fs, one n_chans and one ordered list of channel names; otherwise the
\* error names a field that differs and the values observed for it.
C8_ConsistentIffShared ==
    IsConsistency =>
    /\ op.status = "ok" <=>
          \A field \in {"fs", "n_chans", "chans"} : ~Differs(metadata_list, field)
    /\ op.status = "raise" =>
          \E field \in {"fs", "n_chans", "chans"} :
             /\ Differs(metadata_list, field)
             /\ op.error.message = MessageOf(field)
             /\ op.error.values = Observed(metadata_list, field)

\* the gap in front of the row at position k of the order p
GapBefore(ml, p, k) ==
    ml[p[k]].first_time - ml[p[k - 1]].last_time - SamplePeriod(ml[1].fs)

NoGaps(ml, p) == \A k \in 2..Len(ml) : GapBefore(ml, p, k) <= 0

Earlier(ml) == IF ml[1].first_time < ml[2].first_time THEN ml[1] ELSE ml[2]
Later(ml) == IF ml[1].first_time < ml[2].first_time THEN ml[2] ELSE ml[1]

\* C9: for any order of a non-empty list of files of one fs,
\* validate_continuous returns True if and only if no two files adjacent in
\* first_time order are more than one sample period apart; one file passes;
\* of two files, the second one period after the end of the first passes,
\* two periods after fails with one gap of one period.
C9_ContinuousIffNoGap ==
    (IsContinuous /\ Len(metadata_list) >= 1 /\ OneFs(metadata_list)) =>
    LET ml == metadata_list
        dt == SamplePeriod(ml[1].fs)
    IN  /\ op.status \in {"ok", "raise"}
        /\ op.status = "ok" => \E p \in AscendingOrders(ml) : NoGaps(ml, p)
        /\ op.status = "raise" => \E p \in AscendingOrders(ml) : ~NoGaps(ml, p)
        /\ Len(ml) = 1 => op.status = "ok"
        /\ (Len(ml) = 2 /\ Later(ml).first_time = Earlier(ml).last_time + dt)
              => op.status = "ok"
        /\ (Len(ml) = 2 /\ Later(ml).first_time = Earlier(ml).last_time + 2 * dt)
              => /\ op.status = "raise"
                 /\ Len(op.log) = 1
                 /\ op.log[1].Gap = dt

\* two files listed latest first, the later two periods after the earlier,
\* have been refused
C9_Witness ==
    /\ IsContinuous /\ Len(metadata_list) = 2 /\ op.status = "raise"
    /\ metadata_list[1].first_time =
           metadata_list[2].last_time + 2 * SamplePeriod(metadata_list[1].fs)

RECURSIVE AdjacentGaps(_, _, _)
\* the gaps among the first k rows of the order p, each with the files
\* before and after it
AdjacentGaps(ml, p, k) ==
    IF k < 2 THEN <<>>
    ELSE AdjacentGaps(ml, p, k - 1) \o
         (IF GapBefore(ml, p, k) > 0
          THEN <<[From |-> ml[p[k - 1]].data_file, To |-> ml[p[k]].data_file,
                  Gap |-> GapBefore(ml, p, k)]>>
          ELSE <<>>)

\* C10: when validate_continuous finds gaps, the report lists every gap with
\* the two files adjacent to it in first_time order and its duration, for
\* every order of the list.
C10_GapsNameAdjacentFiles ==
    (IsContinuous /\ op.status = "raise" /\ Len(metadata_list) >= 2
        /\ OneFs(metadata_list)) =>
    \E p \in AscendingOrders(metadata_list) :
        op.log = AdjacentGaps(metadata_list, p, Len(metadata_list))

(***************************************************************************)
(* phoenix/mtu5.read_record: the samples of a record are packed as 3-byte  *)
(* little-endian groups, n_chans groups for every sample.  A byte string   *)
(* is a sequence of integers of 0..255.                                    *)
(***************************************************************************)
SAMPLE_SIZE == 3

MaxRecordGroups == 2    \* samples x channels held by one record

\* the byte values of the records, by position in a group
LowBytes == {0, 1, 255}
MidBytes == {0, 255}
HighBytes == {0, 127, 128, 255}
SampleGroups ==
    {<<b0, b1, b2>> : b0 \in LowBytes, b1 \in MidBytes, b2 \in HighBytes}

\* bytes(ii : ii + n) of a byte string, ii counted from 0
Slice(data_bytes, ii, n) == [k \in 1..n |-> data_bytes[ii + k]]

\* struct.unpack("<I", b): four bytes, least significant first
UnpackUInt32(b) == b[1] + 256 * b[2] + 65536 * b[3] + 16777216 * b[4]

\* x unchanged, whatever its bit 23
SignUncorrected(x) == x

\* x if not (x & 0x800000) else (x - 0x1000000)
SignCorrect(x) == IF (x \div 8388608) % 2 = 1 THEN x - 16777216 ELSE x

\* the value of the group that starts at byte ii
SampleValue(data_bytes, ii) ==
    SignCorrect(UnpackUInt32(Slice(data_bytes, ii, SAMPLE_SIZE) \o <<0>>))

\* the values reshaped to (n_samples, n_chans), not transposed
ReadRecordSampleMajor(data_bytes, n_chans, from_sample, to_sample) ==
    LET n_samples == to_sample - from_sample + 1
        index_from == n_chans * from_sample * SAMPLE_SIZE
    IN  [k \in 1..n_samples |->
            [c \in 1..n_chans |->
                SampleValue(data_bytes,
                    index_from + ((k - 1) * n_chans + (c - 1)) * SAMPLE_SIZE)]]

\* np.array(values).reshape(n_samples, n_chans).T: row c holds the values
\* of channel c for the samples from_sample..to_sample
read_record(data_bytes, n_chans, from_sample, to_sample) ==
    LET n_samples == to_sample - from_sample + 1
        index_from == n_chans * from_sample * SAMPLE_SIZE
    IN  [c \in 1..n_chans |->
            [k \in 1..n_samples |->
                SampleValue(data_bytes,
                    index_from + ((k - 1) * n_chans + (c - 1)) * SAMPLE_SIZE)]]

\* the byte strings of the records of n_chans channels and n samples
RecordBytes(n_chans, n) ==
    {[k \in 1..(n_chans * n * SAMPLE_SIZE) |->
          g[((k - 1) \div SAMPLE_SIZE) + 1][((k - 1) % SAMPLE_SIZE) + 1]] :
        g \in [1..(n_chans * n) -> SampleGroups]}

ReadRecord ==
    /\ op = NoCall
    /\ \E n_chans \in 1..MaxRecordGroups :
       \E n \in 1..(MaxRecordGroups \div n_chans) :
       \E data_bytes \in RecordBytes(n_chans, n) :
       \E from_sample \in 0..(n - 1) :
       \E to_sample \in from_sample..(n - 1) :
          op' = [name |-> "read_record",
                 args |-> <<data_bytes, n_chans, from_sample, to_sample>>,
                 status |-> "ok", error |-> <<>>, log |-> <<>>,
                 value |-> read_record(data_bytes, n_chans,
                                       from_sample, to_sample)]
    /\ UNCHANGED <<metadata_list, data_table, first_call, repeated, reader>>

InitDecode ==
    /\ data_table = <<>>
    /\ NoSession

NextDecode == ReadRecord

SpecDecode == InitDecode /\ [][NextDecode]_vars

(***************************************************************************)
(* Properties of read_record.                                              *)
(***************************************************************************)
IsReadRecord == op.name = "read_record"

\* the three bytes, least significant first, of the 24-bit two's-complement
\* pattern of v
Encode24(v) ==
    LET u == v % 16777216
    IN  <<u % 256, (u \div 256) % 256, u \div 65536>>

\* the group of bytes that sample k of channel c was decoded from
GroupOf(c, k) ==
    LET data_bytes == op.args[1]
        n_chans == op.args[2]
        from_sample == op.args[3]
    IN  Slice(data_bytes,
              ((from_sample + k - 1) * n_chans + (c - 1)) * SAMPLE_SIZE,
              SAMPLE_SIZE)

\* C11: every decoded sample lies in -8388608..8388607 and is the 24-bit
\* two's-complement value of its 3-byte little-endian group, so encoding it
\* again gives the group's bytes and no two groups decode to one value;
\* FF FF 7F gives 8388607, 00 00 80 gives -8388608, 00 00 00 gives 0 and
\* FF FF FF gives -1.
C11_TwosComplement24 ==
    IsReadRecord =>
    \A c \in 1..Len(op.value) : \A k \in 1..Len(op.value[c]) :
        LET v == op.value[c][k]
            g == GroupOf(c, k)
        IN  /\ -8388608 <= v /\ v <= 8388607
            /\ Encode24(v) = g
            /\ g = <<255, 255, 127>> => v = 8388607
            /\ g = <<0, 0, 128>> => v = -8388608
            /\ g = <<0, 0, 0>> => v = 0
            /\ g = <<255, 255, 255>> => v = -1
            /\ \A c2 \in 1..Len(op.value) : \A k2 \in 1..Len(op.value[c2]) :
                  op.value[c2][k2] = v => GroupOf(c2, k2) = g

\* the largest and the smallest value have been decoded from one record
C11_Witness ==
    /\ IsReadRecord
    /\ op.args[1] = <<255, 255, 127, 0, 0, 128>>
    /\ op.args[2] = 1
    /\ op.value = <<(<<8388607, -8388608>>)>>

(***************************************************************************)
(* lemi/b423e.TimeReaderB423E.read_data: the sources that cover the        *)
(* request are read one after the other into one buffer.  The reader's     *)
(* position is reader.pc:                                                  *)
(*   Idle      before the call                                             *)
(*   Loop      at the head of the loop over the rows of df_to_read         *)
(*   Opened    the file of the row is open (line 331)                      *)
(*   Read      its bytes are read and the file is closed (lines 332-333)   *)
(*   Parsed    the bytes are parsed into a block (line 335)                *)
(*   Scaled    the block is multiplied and shifted (line 336)              *)
(*   Returned  the TimeData is returned (line 345)                         *)
(*   Raised    the call has ended with an exception                        *)
(* A file holds records of one raw value per channel.  reader.writes and   *)
(* reader.scaled list the blocks copied to the buffer and the blocks       *)
(* scaled, in the order in which that happened.                            *)
(***************************************************************************)
MaxReadUnits == 2   \* files in the data table of a read
MaxReadCount == 2   \* samples in one file of that table

\* the header scalings of a file: a multiplier and an offset per channel
Scalings == {[Ke |-> <<1, 1>>, Ae |-> <<0, 0>>],
             [Ke |-> <<2, 3>>, Ae |-> <<1, 0>>]}

\* the channels of the recording
ReadChans == 1..2

\* the raw value that file data_file holds for a channel at local sample k
\* (counted from 0)
RawSample(data_file, chan, k) == 100 * data_file + 10 * k + chan

\* a data table with the scalings of every file as columns
ReadTable(counts, sc) ==
    add_cumulative_samples(
        [i \in 1..Len(counts) |->
            [data_file |-> i, n_samples |-> counts[i],
             Ke |-> sc[i].Ke, Ae |-> sc[i].Ae]])

IsReadTable(df) ==
    \E n \in 1..MaxReadUnits :
    \E c \in [1..n -> 0..MaxReadCount] :
    \E sc \in [1..n -> Scalings] :
        df = ReadTable(c, sc)

\* a cell of np.empty that nothing has been written to
Unwritten == <<>>

\* np.empty(shape=(n_chans, n_samples))
EmptyData(n_samples) ==
    [c \in ReadChans |-> [k \in 1..n_samples |-> Unwritten]]

\* a record that the end of the file cuts short
PartialRecord == <<>>

\* the records file_from..file_to of the file of a row, as stored
FileRecords(info) ==
    [k \in 1..info.n_samples_read |->
        [c \in ReadChans |->
            RawSample(info.data_file, c, info.read_from + k - 1)]]

\* _parse_records: the records of the bytes, transposed to one row per
\* channel
parse_records(data_bytes) ==
    [c \in ReadChans |-> [k \in 1..Len(data_bytes) |-> data_bytes[k][c]]]

\* the block with one scaling for all files: that of the first file
ScaleWithFirst(data_read, info, first_info) ==
    [c \in ReadChans |->
        [k \in 1..Len(data_read[c]) |->
            data_read[c][k] * first_info.Ke[c] + first_info.Ae[c]]]

\* the block as it was parsed
ScaleSkipped(data_read, info, first_info) == data_read

\* (data_read[chan_indices] * mult[:, None]) + add[:, None]
ScaleBlock(data_read, info, first_info) ==
    [c \in ReadChans |->
        [k \in 1..Len(data_read[c]) |->
            data_read[c][k] * info.Ke[c] + info.Ae[c]]]

\* the cursor left where it was
CursorStuck(sample, n_samples_file) == sample

\* sample = sample + n_samples_file
AdvanceCursor(sample, n_samples_file) == sample + n_samples_file

\* the block copied with the column after it
CopyBlockWide(data, sample, n_samples_file, data_read) ==
    [c \in ReadChans |->
        [k \in 1..Len(data[c]) |->
            IF sample < k /\ k <= sample + n_samples_file + 1
            THEN <<data_read[c][Min(k - sample, n_samples_file)]>>
            ELSE data[c][k]]]

\* data[:, sample : sample + n_samples_file] = data_read
CopyBlock(data, sample, n_samples_file, data_read) ==
    [c \in ReadChans |->
        [k \in 1..Len(data[c]) |->
            IF sample < k /\ k <= sample + n_samples_file
            THEN <<data_read[c][k - sample]>>
            ELSE data[c][k]]]

CurrentRow == reader.df_to_read[reader.row]

\* lines 307-318: the request is resolved and the buffer allocated
StartRead ==
    /\ reader.pc = "Idle"
    /\ \E read_from \in 0..TotalSamples(data_table) :
       \E read_to \in read_from..TotalSamples(data_table) :
          LET res == samples_to_sources(data_table, read_from, read_to)
          IN  reader' =
                IF res.status = "raise"
                THEN [reader EXCEPT !.pc = "Raised",
                                    !.args = <<read_from, read_to>>,
                                    !.error = res.error]
                ELSE [reader EXCEPT !.pc = "Loop",
                                    !.args = <<read_from, read_to>>,
                                    !.df_to_read = res.value,
                                    !.row = 1,
                                    !.sample = 0,
                                    !.data = EmptyData(read_to - read_from + 1)]
    /\ UNCHANGED <<metadata_list, data_table, op, first_call, repeated>>

\* lines 319-331: the next row is taken and its file opened
OpenSource ==
    /\ reader.pc = "Loop"
    /\ reader.row <= Len(reader.df_to_read)
    /\ reader' = [reader EXCEPT !.pc = "Opened",
                                !.open = @ \cup {CurrentRow.data_file}]
    /\ UNCHANGED <<metadata_list, data_table, op, first_call, repeated>>

\* line 331: the file of the next row cannot be opened
OpenFails ==
    /\ reader.pc = "Loop"
    /\ reader.row <= Len(reader.df_to_read)
    /\ reader' = [reader EXCEPT !.pc = "Raised",
                                !.error = [type |-> "FileNotFoundError",
                                           filename |-> CurrentRow.data_file]]
    /\ UNCHANGED <<metadata_list, data_table, op, first_call, repeated>>

\* lines 332-333 and the end of the with block: the bytes are read and the
\* file is closed
ReadBytes ==
    /\ reader.pc = "Opened"
    /\ reader' = [reader EXCEPT !.pc = "Read",
                                !.data_bytes = FileRecords(CurrentRow),
                                !.open = @ \ {CurrentRow.data_file}]
    /\ UNCHANGED <<metadata_list, data_table, op, first_call, repeated>>

\* lines 332-333: the file ends inside a record; the bytes read are not a
\* whole number of records
ReadTruncated ==
    /\ reader.pc = "Opened"
    /\ CurrentRow.n_samples_read > 0
    /\ reader' = [reader EXCEPT !.pc = "Read",
                                !.data_bytes = <<PartialRecord>>,
                                !.open = @ \ {CurrentRow.data_file}]
    /\ UNCHANGED <<metadata_list, data_table, op, first_call, repeated>>

\* line 335: struct.iter_unpack needs a whole number of records; an array
\* of no records has no channel rows to select (line 336)
ParseRecords ==
    /\ reader.pc = "Read"
    /\ reader' =
         IF \E k \in 1..Len(reader.data_bytes) :
                reader.data_bytes[k] = PartialRecord
         THEN [reader EXCEPT !.pc = "Raised",
                             !.error = [type |-> "struct.error"]]
         ELSE IF Len(reader.data_bytes) = 0
         THEN [reader EXCEPT !.pc = "Raised",
                             !.error = [type |-> "IndexError"]]
         ELSE [reader EXCEPT !.pc = "Parsed",
                             !.data_read = parse_records(reader.data_bytes)]
    /\ UNCHANGED <<metadata_list, data_table, op, first_call, repeated>>

\* line 336: the block is scaled with the multipliers and offsets of its row
ScaleRead ==
    /\ reader.pc = "Parsed"
    /\ reader' = [reader EXCEPT
                    !.pc = "Scaled",
                    !.data_read = ScaleBlock(reader.data_read, CurrentRow,
                                             reader.df_to_read[1]),
                    !.scaled = Append(@, CurrentRow.data_file)]
    /\ UNCHANGED <<metadata_list, data_table, op, first_call, repeated>>

\* lines 337-338: the block is copied to the buffer and the cursor advanced
CopyRead ==
    /\ reader.pc = "Scaled"
    /\ LET n_samples_file == CurrentRow.n_samples_read
       IN  reader' = [reader EXCEPT
                        !.pc = "Loop",
                        !.data = CopyBlock(reader.data, reader.sample,
                                           n_samples_file, reader.data_read),
                        !.writes = Append(@, [data_file |-> CurrentRow.data_file,
                                              from |-> reader.sample,
                                              n |-> n_samples_file]),
                        !.sample = AdvanceCursor(reader.sample, n_samples_file),
                        !.row = @ + 1]
    /\ UNCHANGED <<metadata_list, data_table, op, first_call, repeated>>

\* lines 339-345: the loop is over and the TimeData is returned
ReturnData ==
    /\ reader.pc = "Loop"
    /\ reader.row > Len(reader.df_to_read)
    /\ reader' = [reader EXCEPT !.pc = "Returned"]
    /\ UNCHANGED <<metadata_list, data_table, op, first_call, repeated>>

InitRead ==
    /\ IsReadTable(data_table)
    /\ NoSession

NextRead ==
    \/ StartRead \/ OpenSource \/ OpenFails \/ ReadBytes \/ ReadTruncated
    \/ ParseRecords \/ ScaleRead \/ CopyRead \/ ReturnData

SpecRead == InitRead /\ [][NextRead]_vars

(***************************************************************************)
(* Properties of read_data.                                                *)
(***************************************************************************)
IsReturned == reader.pc = "Returned"
IsRaised == reader.pc = "Raised"
ReadFromSample == reader.args[1]
ReadToSample == reader.args[2]
RequestedSamples == ReadToSample - ReadFromSample + 1

\* the row of the data table whose file holds sample s of the recording
SourceOf(s) ==
    CHOOSE i \in 1..Len(data_table) : Holds(data_table, i, s)

\* what the file holding sample s of the recording gives for a channel, with
\* the multiplier and offset of that file
ScaledSample(chan, s) ==
    LET u == data_table[SourceOf(s)]
    IN  RawSample(u.data_file, chan, s - u.first_sample) * u.Ke[chan]
            + u.Ae[chan]

\* C12: every sample of the returned buffer is raw * multiplier + offset with
\* the raw value, the multiplier and the offset of the file the sample was
\* read from, also when the files of one read have different scalings; with
\* multiplier 2 and offset 1 the raw value 10 gives 21.
C12_ScaledPerSource ==
    /\ IsReturned =>
         \A c \in ReadChans : \A k \in 1..RequestedSamples :
            reader.data[c][k] = <<ScaledSample(c, ReadFromSample + k - 1)>>
    /\ LET sc == [Ke |-> <<2, 3>>, Ae |-> <<1, 0>>]
       IN  ScaleBlock(<<(<<10>>), (<<10>>)>>, sc, sc)[1] = <<21>>

\* a read over two files of different scalings has returned
C12_Witness ==
    /\ IsReturned
    /\ Len(reader.df_to_read) = 2
    /\ reader.df_to_read[1].Ke # reader.df_to_read[2].Ke
    /\ reader.df_to_read[1].Ae # reader.df_to_read[2].Ae
    /\ reader.scaled = <<1, 2>>

ScaledCount == Len(reader.scaled)
CopiedCount == Len(reader.writes)

\* C13 (as stated): the scaler runs only once the blocks of all rows have
\* been copied to the buffer; no block is scaled while a later row is unread.
C13_ScaledAfterAssembly ==
    ScaledCount > 0 => CopiedCount = Len(reader.df_to_read)

\* C13 (amended): the block of every row is scaled on its own, once, in row
\* order, after it is parsed and before it is copied, while later rows are
\* still unread; what is in the buffer is scaled already, and when the data
\* is returned the block of every row has been scaled.
C13_ScaledBeforeCopied ==
    /\ reader.scaled =
          [k \in 1..ScaledCount |-> reader.df_to_read[k].data_file]
    /\ CopiedCount <= ScaledCount /\ ScaledCount <= CopiedCount + 1
    /\ ScaledCount = CopiedCount + 1 <=> reader.pc = "Scaled"
    /\ reader.pc \in {"Opened", "Read", "Parsed"} =>
          ScaledCount = reader.row - 1
    /\ \A c \in DOMAIN reader.data : \A k \in 1..Len(reader.data[c]) :
          reader.data[c][k] # Unwritten =>
             reader.data[c][k] = <<ScaledSample(c, ReadFromSample + k - 1)>>
    /\ IsReturned => ScaledCount = Len(reader.df_to_read)

\* the first block of two is scaled and in the buffer, the second file has
\* not been opened yet
C13_Witness ==
    /\ reader.pc = "Loop" /\ reader.row = 2
    /\ Len(reader.df_to_read) = 2
    /\ reader.scaled = <<1>> /\ CopiedCount = 1
    /\ reader.df_to_read[1].Ke = <<2, 3>>

\* the read has ended with an exception raised while a file was being
\* opened, read or parsed
FailedInSource ==
    IsRaised /\ reader.row >= 1 /\ reader.row <= Len(reader.df_to_read)

\* C14: when the opening, reading or parsing of a file fails, the read ends
\* without returning data, and the error raised names the file and the
\* requested range read_from..read_to.
C14_FailureNamesSourceAndRange ==
    FailedInSource =>
        /\ ~IsReturned
        /\ "filename" \in DOMAIN reader.error
        /\ reader.error.filename = CurrentRow.data_file
        /\ "range" \in DOMAIN reader.error
        /\ reader.error.range = reader.args

(***************************************************************************)
(* Reading the headers of the files of a directory: lemi/b423              *)
(* _get_b423_metadata_list with _read_b423_headers, and spam               *)
(* TimeReaderXTR._read_xtr.  The files are read in the order of the        *)
(* listing; what a file holds is seen when it is read.  reader.pc is       *)
(*   Listed      between two files                                         *)
(*   HeaderOpen  the file is open (b423.py line 204)                       *)
(*   ScanDone    the list of metadata is returned                          *)
(*   ScanRaised  the reading of a file has raised                          *)
(* reader.open holds the files with an open handle.  _read_b423_headers    *)
(* never closes its handle: it is closed when the interpreter finalises    *)
(* the file object, at a time of the interpreter's choosing.               *)
(***************************************************************************)
B423_RECORD_BYTES == 30
B423_HEADER_LENGTH == 1024

MaxScanFiles == 2    \* files in the directory
MaxScanSamples == 2  \* whole records in one file
MaxScanTime == 3     \* latest last_time of a file, in ticks

\* round to the nearest integer, halves to the even one, of num / den
RoundHalfEven(num, den) ==
    LET q == num \div den
        r == 2 * (num % den)
    IN  IF r < den THEN q
        ELSE IF r > den THEN q + 1
        ELSE IF q % 2 = 0 THEN q ELSE q + 1

\* resistics.sampling.to_n_samples: the samples of a time span at fs
to_n_samples(delta, fs) == RoundHalfEven(delta * fs, TicksPerSecond) + 1

\* the lengths of the data of a file: whole and half records
DataLengths ==
    {(k * B423_RECORD_BYTES) \div 2 : k \in 1..(2 * MaxScanSamples)}

\* n_samples taken as int(n_samples) in the comparison
SamplesDifferTruncated(data_length, record_bytes, expected) ==
    data_length \div record_bytes # expected

\* n_samples != to_n_samples(...), n_samples the quotient
\* (f_size - data_byte_offset) / record_bytes, whole or not
SamplesDiffer(data_length, record_bytes, expected) ==
    data_length # expected * record_bytes

TimeDataReadError(message) ==
    [type |-> "TimeDataReadError", message |-> message]

HeaderReadError(message) ==
    [type |-> "HeaderReadError", message |-> message]

\* lines 195-222 of b423.py for one file
read_b423_headers(f, fs) ==
    LET data_length == f.f_size - B423_HEADER_LENGTH
        n_samples == data_length \div B423_RECORD_BYTES
        expected == to_n_samples(f.last_time - f.first_time, fs)
    IN  IF SamplesDiffer(data_length, B423_RECORD_BYTES, expected)
        THEN Raised(TimeDataReadError("Number of samples mismatch"), <<>>)
        ELSE Returned([data_file |-> f.data_file, fs |-> fs,
                       chans |-> <<Ex, Ey>>, n_chans |-> 2,
                       first_time |-> f.first_time,
                       last_time |-> f.last_time,
                       n_samples |-> n_samples])

\* n_samples = int((duration * fs) + 1)
XtrSamples(first_time, last_time, fs) ==
    (((last_time - first_time) * fs) \div TicksPerSecond) + 1

\* spam.py lines 410-423 for one XTR file and its RAW file
read_xtr(f) ==
    LET n_samples == XtrSamples(f.first_time, f.last_time, f.fs)
    IN  IF n_samples # f.raw_n_samples
        THEN Raised(HeaderReadError("Sample mismatch"), <<>>)
        ELSE Returned([data_file |-> f.data_file, fs |-> f.fs,
                       chans |-> <<Ex, Ey>>, n_chans |-> 2,
                       first_time |-> f.first_time,
                       last_time |-> f.last_time,
                       n_samples |-> n_samples])

NoScan(kind, fs, n_paths) ==
    [pc |-> "Listed", kind |-> kind, fs |-> fs, n_paths |-> n_paths,
     path |-> 1, open |-> {}, f |-> <<>>]

\* b423.py lines 190-204: the size of the file is taken and the file opened
OpenHeaders ==
    /\ reader.pc = "Listed" /\ reader.kind = "B423"
    /\ reader.path <= reader.n_paths
    /\ \E data_length \in DataLengths : \E last_time \in 0..MaxScanTime :
          reader' = [reader EXCEPT
                       !.pc = "HeaderOpen",
                       !.open = @ \cup {reader.path},
                       !.f = [data_file |-> reader.path,
                              f_size |-> B423_HEADER_LENGTH + data_length,
                              first_time |-> 0,
                              last_time |-> last_time]]
    /\ UNCHANGED <<metadata_list, data_table, op, first_call, repeated>>

\* b423.py lines 205-222: the times are read and the samples compared
ReadHeaders ==
    /\ reader.pc = "HeaderOpen"
    /\ LET res == read_b423_headers(reader.f, reader.fs)
       IN  /\ op' = [name |-> "_read_b423_headers", args |-> reader.f] @@ res
           /\ IF res.status = "raise"
              THEN /\ reader' = [reader EXCEPT !.pc = "ScanRaised"]
                   /\ UNCHANGED metadata_list
              ELSE /\ reader' = [reader EXCEPT !.pc = "Listed",
                                               !.path = @ + 1]
                   /\ metadata_list' = Append(metadata_list, res.value)
    /\ UNCHANGED <<data_table, first_call, repeated>>

\* the interpreter finalises a file object that no call holds any more
CollectHandle ==
    /\ "open" \in DOMAIN reader /\ reader.pc # "Idle"
    /\ \E h \in reader.open :
          /\ ~(reader.pc = "HeaderOpen" /\ h = reader.path)
          /\ reader' = [reader EXCEPT !.open = @ \ {h}]
    /\ UNCHANGED <<metadata_list, data_table, op, first_call, repeated>>

\* spam.py lines 410-423: an XTR file is read and compared with its RAW file
ReadXtr ==
    /\ reader.pc = "Listed" /\ reader.kind = "XTR"
    /\ reader.path <= reader.n_paths
    /\ \E fs \in {1, TicksPerSecond} :
       \E last_time \in 0..MaxScanTime :
       \E raw_n_samples \in 1..MaxScanSamples :
          LET f == [data_file |-> reader.path, fs |-> fs, first_time |-> 0,
                    last_time |-> last_time,
                    raw_n_samples |-> raw_n_samples]
              res == read_xtr(f)
          IN  /\ op' = [name |-> "_read_xtr", args |-> f] @@ res
              /\ IF res.status = "raise"
                 THEN /\ reader' = [reader EXCEPT !.pc = "ScanRaised"]
                      /\ UNCHANGED metadata_list
                 ELSE /\ reader' = [reader EXCEPT !.path = @ + 1]
                      /\ metadata_list' = Append(metadata_list, res.value)
    /\ UNCHANGED <<data_table, first_call, repeated>>

\* all files are read: the list of metadata is returned
ScanDone ==
    /\ reader.pc = "Listed"
    /\ reader.path > reader.n_paths
    /\ reader' = [reader EXCEPT !.pc = "ScanDone"]
    /\ UNCHANGED <<metadata_list, data_table, op, first_call, repeated>>

InitScan ==
    /\ metadata_list = <<>>
    /\ data_table = <<>>
    /\ op = NoCall
    /\ first_call = NoCall
    /\ repeated = FALSE
    /\ \E kind \in {"B423", "XTR"} : \E fs \in {1, TicksPerSecond} :
       \E n_paths \in 0..MaxScanFiles :
          reader = NoScan(kind, fs, n_paths)

NextScan ==
    OpenHeaders \/ ReadHeaders \/ CollectHandle \/ ReadXtr \/ ScanDone

SpecScan == InitScan /\ [][NextScan]_vars

(***************************************************************************)
(* Properties of the open files.                                           *)
(***************************************************************************)
\* no file is being read: the reader is between two files, or the call has
\* returned or raised
BetweenSources ==
    reader.pc \in {"Loop", "Returned", "Raised",
                   "Listed", "ScanDone", "ScanRaised"}

\* C15: at most one file is open at any time, the file of one row or
\* directory entry is closed before the next is opened, and no file is open
\* once read_data or the reading of a file's headers has returned or raised.
C15_OneSourceOpen ==
    /\ Cardinality(reader.open) <= 1
    /\ BetweenSources => reader.open = {}

(***************************************************************************)
(* Properties of the reading of the headers.                               *)
(***************************************************************************)
IsB423Headers == op.name = "_read_b423_headers"
IsXtr == op.name = "_read_xtr"

\* the samples that the time span of the file of the last call gives
SpanSamples(fs) ==
    RoundHalfEven((op.args.last_time - op.args.first_time) * fs,
                  TicksPerSecond) + 1

\* C17: every file accepted has n_samples = round((last_time - first_time)
\* * fs) + 1, and a file whose sample count, taken from its size or from
\* its RAW header, is not that number makes the reading of its headers raise
\* and adds no metadata.
C17_CountMatchesSpan ==
    /\ \A k \in 1..Len(metadata_list) :
          LET m == metadata_list[k]
          IN  m.n_samples =
                 RoundHalfEven((m.last_time - m.first_time) * m.fs,
                               TicksPerSecond) + 1
    /\ (/\ IsB423Headers
        /\ op.args.f_size - B423_HEADER_LENGTH
              # SpanSamples(reader.fs) * B423_RECORD_BYTES)
       => op.status = "raise"
    /\ (IsXtr /\ op.args.raw_n_samples # SpanSamples(op.args.fs))
       => op.status = "raise"

\* C18: a B423 file whose data length is not a whole number of records makes
\* _read_b423_headers raise; it gives no metadata with the number of whole
\* records as n_samples.
C18_PartialRecordRejected ==
    (/\ IsB423Headers
     /\ (op.args.f_size - B423_HEADER_LENGTH) % B423_RECORD_BYTES # 0)
    => /\ op.status = "raise"
       /\ op.error.type = "TimeDataReadError"
       /\ reader.pc = "ScanRaised"
       /\ \A k \in 1..Len(metadata_list) :
             metadata_list[k].data_file # op.args.data_file

\* a file of one record and a half whose times span one sample is rejected
C18_Witness ==
    /\ IsB423Headers
    /\ op.args.f_size = B423_HEADER_LENGTH + B423_RECORD_BYTES
                            + B423_RECORD_BYTES \div 2
    /\ op.args.last_time = op.args.first_time
    /\ op.status = "raise"

(***************************************************************************)
(* Properties of the columns of the buffer.                                *)
(***************************************************************************)
\* the first column of the block of row i: the samples of the rows before
ColumnOffset(df, i) == ColumnSum(df, "n_samples_read", i - 1)

\* the columns of the block of row i
ColumnsOf(df, i) ==
    (ColumnOffset(df, i) + 1)..(ColumnOffset(df, i) + df[i].n_samples_read)

\* the block of a row as the loop parses and scales it
BlockOf(df, i) ==
    ScaleBlock(parse_records(FileRecords(df[i])), df[i], df[1])

RECURSIVE AssembleIn(_, _, _, _)
\* the buffer after the blocks of the first k rows of an order are copied
\* to their columns
AssembleIn(df, n_samples, order, k) ==
    IF k = 0 THEN EmptyData(n_samples)
    ELSE CopyBlock(AssembleIn(df, n_samples, order, k - 1),
                   ColumnOffset(df, order[k]),
                   df[order[k]].n_samples_read,
                   BlockOf(df, order[k]))

\* C16: the columns written for the rows of one read are those that the
\* rows of df_to_read give, they are pairwise disjoint, and copying the
\* blocks of the rows to these columns in any order gives the buffer that
\* the loop returns.
C16_DisjointColumns ==
    IsReturned =>
    LET df == reader.df_to_read
        n == Len(df)
    IN  /\ Len(reader.writes) = n
        /\ \A i \in 1..n :
              /\ reader.writes[i].from = ColumnOffset(df, i)
              /\ reader.writes[i].n = df[i].n_samples_read
        /\ \A i \in 1..n : \A j \in 1..n :
              i # j => ColumnsOf(df, i) \cap ColumnsOf(df, j) = {}
        /\ \A order \in Orders(n) :
              AssembleIn(df, RequestedSamples, order, n) = reader.data

\* a read of two rows of two samples each has returned
C16_Witness ==
    /\ IsReturned
    /\ Len(reader.df_to_read) = 2
    /\ reader.df_to_read[1].n_samples_read = 2
    /\ reader.df_to_read[2].n_samples_read = 2
    /\ AssembleIn(reader.df_to_read, 4, <<2, 1>>, 2) = reader.data

\* the writes that have put a value in column k of the buffer
WritesTo(k) ==
    {i \in 1..Len(reader.writes) :
        reader.writes[i].from < k
            /\ k <= reader.writes[i].from + reader.writes[i].n}

InLoop == reader.pc \in {"Loop", "Opened", "Read", "Parsed", "Scaled"}

\* C20: while the rows are read the cursor is the sum of n_samples_read of
\* the rows already copied; the block of a row goes to the columns from the
\* cursor on; at the end of the loop the cursor is read_to - read_from + 1
\* and every column of the buffer has been written once, the columns in
\* ascending order.
C20_CursorIsRunningSum ==
    /\ InLoop =>
          /\ reader.sample =
                ColumnSum(reader.df_to_read, "n_samples_read", reader.row - 1)
          /\ Len(reader.writes) = reader.row - 1
    /\ (InLoop \/ IsReturned) =>
          \A i \in 1..Len(reader.writes) :
             /\ reader.writes[i].from =
                   ColumnSum(reader.df_to_read, "n_samples_read", i - 1)
             /\ reader.writes[i].n = reader.df_to_read[i].n_samples_read
             /\ i > 1 => reader.writes[i].from =
                   reader.writes[i - 1].from + reader.writes[i - 1].n
    /\ IsReturned =>
          /\ reader.sample = RequestedSamples
          /\ \A k \in 1..RequestedSamples : Cardinality(WritesTo(k)) = 1
          /\ \A c \in ReadChans : \A k \in 1..RequestedSamples :
                reader.data[c][k] # Unwritten

\* a read of three samples from two files has returned
C20_Witness ==
    /\ IsReturned
    /\ Len(reader.writes) = 2
    /\ RequestedSamples = 3
    /\ reader.sample = 3
    /\ reader.writes[2].from = reader.writes[1].n

(***************************************************************************)
(* scale_data of lemi/b423.TimeReaderB423 and lemi/b423e.TimeReaderB423E:  *)
(* the data read is brought to field units, channel by channel.  A value   *)
(* is a fraction num / den, so that a division is exact.                   *)
(***************************************************************************)
MaxScaleChans == 3      \* channels of the time data
MaxScaleSamples == 2    \* samples of a channel

Hx == <<"H", "x">>
Hy == <<"H", "y">>
E3 == <<"E", "3">>

RECURSIVE GCD(_, _)
GCD(a, b) == IF b = 0 THEN a ELSE GCD(b, a % b)

\* the fraction num / den in lowest terms
Fraction(num, den) ==
    LET g == GCD(num, den)
    IN  [num |-> num \div g, den |-> den \div g]

\* q / (a / b)
Over(q, a, b) ==
    LET f == Fraction(b, a)
    IN  Fraction(q.num * f.num, q.den * f.den)

\* two fractions of one value
SameValue(q, r) == q.num * r.den = r.num * q.den

\* resistics.common.is_electric and is_magnetic
is_electric(chan) == chan[1] = "E"
is_magnetic(chan) == chan[1] = "H"

\* the channel as read: offsets and multipliers of the headers applied
ReadValue(chan, k) ==
    [num |-> 21 * k + (IF is_electric(chan) THEN 3 ELSE 7), den |-> 1]

\* time_data of the channels of a set with n samples each
TimeData(chanset, n) ==
    [c \in chanset |-> [k \in 1..n |-> ReadValue(c, k)]]

\* the magnetic channel with its gain left in
GainLeft(x, gain) == x

\* time_data[chan] / gain
RemoveGain(x, gain) == Over(x, gain, 1)

\* b423.py lines 569-585 for one sample of one channel
ScaleB423(chan, x, md) ==
    LET x1 == IF is_electric(chan) THEN Over(x, 1000, 1) ELSE x
        x2 == IF chan = Ex THEN Over(x1, md.dx, 1000) ELSE x1
        x3 == IF chan = Ey THEN Over(x2, md.dy, 1000) ELSE x2
    IN  IF is_magnetic(chan) THEN RemoveGain(x3, md.gain1) ELSE x3

\* b423e.py lines 433-436 for one sample of one channel
ScaleB423E(chan, x, md) ==
    Over(Over(x, 1000, 1), md.dipole_dist, 1000)

RECURSIVE ScaleChans(_, _, _, _, _)
\* the loop over time_data.metadata.chans, after its first k channels
ScaleChans(kind, time_data, chans, chans_metadata, k) ==
    IF k = 0 THEN time_data
    ELSE LET td == ScaleChans(kind, time_data, chans, chans_metadata, k - 1)
             chan == chans[k]
         IN  [td EXCEPT ![chan] =
                [j \in 1..Len(td[chan]) |->
                    IF kind = "B423"
                    THEN ScaleB423(chan, td[chan][j], chans_metadata[chan])
                    ELSE ScaleB423E(chan, td[chan][j], chans_metadata[chan])]]

scale_data(kind, time_data, chans, chans_metadata) ==
    ScaleChans(kind, time_data, chans, chans_metadata, Len(chans))

\* the channel lists: the names of a set, each once, in any order
ChanOrders(names) ==
    {chans \in SeqsUpTo(names, MaxScaleChans) :
        \A i \in 1..Len(chans) : \A j \in 1..Len(chans) :
            chans[i] = chans[j] => i = j}

DipoleLengths == {60, 1000}
Gains == {1, 2}

ScaleDataB423 ==
    /\ op = NoCall
    /\ \E chans \in ChanOrders({Hx, Hy, Ex, Ey}) :
       \E n \in 1..MaxScaleSamples :
       \E dx \in DipoleLengths : \E dy \in DipoleLengths :
       \E gain1 \in Gains :
          LET chanset == {chans[i] : i \in 1..Len(chans)}
              md == [c \in chanset |->
                        [dx |-> dx, dy |-> dy, gain1 |-> gain1]]
              time_data == TimeData(chanset, n)
          IN  op' = [name |-> "scale_data",
                     args |-> [kind |-> "B423", time_data |-> time_data,
                               chans |-> chans, chans_metadata |-> md],
                     status |-> "ok", error |-> <<>>, log |-> <<>>,
                     value |-> scale_data("B423", time_data, chans, md)]
    /\ UNCHANGED <<metadata_list, data_table, first_call, repeated, reader>>

ScaleDataB423E ==
    /\ op = NoCall
    /\ \E chans \in ChanOrders({Ex, Ey, E3}) :
       \E n \in 1..MaxScaleSamples :
       \E dd \in [{Ex, Ey, E3} -> DipoleLengths] :
          LET chanset == {chans[i] : i \in 1..Len(chans)}
              md == [c \in chanset |-> [dipole_dist |-> dd[c]]]
              time_data == TimeData(chanset, n)
          IN  op' = [name |-> "scale_data",
                     args |-> [kind |-> "B423E", time_data |-> time_data,
                               chans |-> chans, chans_metadata |-> md],
                     status |-> "ok", error |-> <<>>, log |-> <<>>,
                     value |-> scale_data("B423E", time_data, chans, md)]
    /\ UNCHANGED <<metadata_list, data_table, first_call, repeated, reader>>

InitScale ==
    /\ data_table = <<>>
    /\ NoSession

NextScale == ScaleDataB423 \/ ScaleDataB423E

SpecScale == InitScale /\ [][NextScale]_vars

(***************************************************************************)
(* Properties of scale_data.                                               *)
(***************************************************************************)
IsScale == op.name = "scale_data"

\* the dipole length of a channel, in metres
DipoleOf(chan) ==
    LET md == op.args.chans_metadata[chan]
    IN  IF op.args.kind = "B423E" THEN md.dipole_dist
        ELSE IF chan = Ex THEN md.dx ELSE md.dy

\* every channel of the data keeps its samples, in their order, each divided
\* by what Divisor gives for the channel (a fraction num / den)
DividedBy(Divisor(_)) ==
    \A chan \in DOMAIN op.value :
        /\ Len(op.value[chan]) = Len(op.args.time_data[chan])
        /\ \A k \in 1..Len(op.value[chan]) :
              SameValue(op.value[chan][k],
                        Over(op.args.time_data[chan][k],
                             Divisor(chan).num, Divisor(chan).den))

\* the dipole length in kilometres of an electric channel, the gain of a
\* magnetic one
FieldDivisor(chan) ==
    IF is_electric(chan) THEN [num |-> DipoleOf(chan), den |-> 1000]
    ELSE [num |-> op.args.chans_metadata[chan].gain1, den |-> 1]

\* the same with the 1000 of microvolts to millivolts for an electric channel
FieldDivisorFromMicrovolts(chan) ==
    IF is_electric(chan) THEN [num |-> DipoleOf(chan), den |-> 1]
    ELSE [num |-> op.args.chans_metadata[chan].gain1, den |-> 1]

\* the channels taken in any order give the same data
AnyChanOrder ==
    \A chans \in ChanOrders(DOMAIN op.value) :
        Len(chans) = Len(op.args.chans) =>
            scale_data(op.args.kind, op.args.time_data, chans,
                       op.args.chans_metadata) = op.value

\* C19 (as stated): every electric channel is divided by its dipole length
\* in kilometres, once, every magnetic channel by its gain, once, nothing
\* else is changed, the samples keep their order, and the order of the
\* channels does not matter.
C19_DividedByDipoleOrGain ==
    IsScale => DividedBy(FieldDivisor) /\ AnyChanOrder

\* C19 (amended): every electric channel is divided by 1000 and by its
\* dipole length in kilometres, once each, every magnetic channel by its
\* gain, once; the samples keep their order, and the order of the channels
\* does not matter.
C19_MicrovoltsToFieldUnits ==
    IsScale => DividedBy(FieldDivisorFromMicrovolts) /\ AnyChanOrder

\* B423 data of a magnetic and the two electric channels, with dipoles of
\* different lengths and a gain of 2, has been scaled
C19_Witness ==
    /\ IsScale /\ op.args.kind = "B423"
    /\ op.args.chans = <<Ey, Hx, Ex>>
    /\ op.args.chans_metadata[Ex].dx = 60
    /\ op.args.chans_metadata[Ex].dy = 1000
    /\ op.args.chans_metadata[Hx].gain1 = 2
    /\ SameValue(op.value[Ex][1], [num |-> 24, den |-> 60])
    /\ SameValue(op.value[Hx][1], [num |-> 14, den |-> 1])

TAG_SIZE == 32

MaxTags == 2        \* tags that the loop is followed for
MaxTagScans == 2    \* n_scans of a tag
MaxTagChans == 2    \* n_chans of a file

\* the sizes of the files: whole tags and samples, and one byte more
FileSizes ==
    {TAG_SIZE * k + SAMPLE_SIZE * m + t :
        k \in 0..(MaxTags + 1), m \in 0..(MaxTagScans * MaxTagChans),
        t \in {0, 1}}

\* what read_tag can find in the n_scans and n_chans fields
TagsOf(n_chans) ==
    {[n_scans |-> s, n_chans |-> c] :
        s \in (-1)..MaxTagScans, c \in {n_chans, -1}}

\* the start of the tag taken for the start of the data
ByteStartAtTag(bytes_read) == bytes_read

\* record_byte_starts.append(bytes_read + TAG_SIZE)
ByteStart(bytes_read) == bytes_read + TAG_SIZE

\* lines 287-293: the row of the record of a tag
RecordRow(tag_data, sample, bytes_read) ==
    [first_sample |-> sample,
     last_sample |-> sample + tag_data.n_scans - 1,
     n_samples |-> tag_data.n_scans,
     data_byte_start |-> ByteStart(bytes_read)]

\* data_bytes = tag_data["n_scans"] * tag_data["n_chans"] * SAMPLE_SIZE
TagDataBytes(tag_data) == tag_data.n_scans * tag_data.n_chans * SAMPLE_SIZE

NoRecords(n_bytes, n_chans) ==
    [pc |-> "Scan", n_bytes |-> n_bytes, n_chans |-> n_chans,
     bytes_read |-> 0, sample |-> 0, rows |-> <<>>, tags |-> <<>>,
     seen |-> <<>>, open |-> {"ts_file"}, error |-> <<>>]

\* the tag that the file holds at a position, if the loop has read it before
SeenAt(pos) ==
    {reader.seen[k].tag_data : k \in {j \in 1..Len(reader.seen) :
                                          reader.seen[j].pos = pos}}

\* lines 285-297: one turn of the loop with a whole tag at bytes_read
ReadTag ==
    /\ reader.pc = "Scan"
    /\ reader.bytes_read < reader.n_bytes
    /\ Len(reader.tags) < MaxTags
    /\ reader.n_bytes - reader.bytes_read >= TAG_SIZE
    /\ \E tag_data \in TagsOf(reader.n_chans) :
          /\ SeenAt(reader.bytes_read) \subseteq {tag_data}
          /\ LET data_bytes == TagDataBytes(tag_data)
                 noted == [reader EXCEPT
                    !.rows = Append(@, RecordRow(tag_data, reader.sample,
                                                 reader.bytes_read)),
                    !.tags = Append(@, tag_data),
                    !.seen = IF SeenAt(reader.bytes_read) = {}
                             THEN Append(@, [pos |-> reader.bytes_read,
                                             tag_data |-> tag_data])
                             ELSE @,
                    !.sample = @ + tag_data.n_scans]
             IN  reader' =
                   IF reader.bytes_read + TAG_SIZE + data_bytes < 0
                   THEN [noted EXCEPT !.pc = "ScanRaised", !.open = {},
                                      !.error = [type |-> "OSError"]]
                   ELSE [noted EXCEPT
                            !.bytes_read = @ + TAG_SIZE + data_bytes]
    /\ UNCHANGED <<metadata_list, data_table, op, first_call, repeated>>

\* line 286: fewer than TAG_SIZE bytes are left for the tag
ReadTagTruncated ==
    /\ reader.pc = "Scan"
    /\ reader.bytes_read < reader.n_bytes
    /\ reader.n_bytes - reader.bytes_read < TAG_SIZE
    /\ reader' = [reader EXCEPT !.pc = "ScanRaised", !.open = {},
                                !.error = [type |-> "struct.error"]]
    /\ UNCHANGED <<metadata_list, data_table, op, first_call, repeated>>

\* lines 285, 298-306: the loop is over and the table returned
ReturnRecords ==
    /\ reader.pc = "Scan"
    /\ reader.bytes_read >= reader.n_bytes
    /\ reader' = [reader EXCEPT !.pc = "ScanDone", !.open = {}]
    /\ data_table' = reader.rows
    /\ UNCHANGED <<metadata_list, op, first_call, repeated>>

\* the loop is followed no further
CutScan ==
    /\ reader.pc = "Scan"
    /\ reader.bytes_read < reader.n_bytes
    /\ Len(reader.tags) >= MaxTags
    /\ reader.n_bytes - reader.bytes_read >= TAG_SIZE
    /\ reader' = [reader EXCEPT !.pc = "ScanCut"]
    /\ UNCHANGED <<metadata_list, data_table, op, first_call, repeated>>

InitRecords ==
    /\ metadata_list = <<>>
    /\ data_table = <<>>
    /\ op = NoCall
    /\ first_call = NoCall
    /\ repeated = FALSE
    /\ \E n_bytes \in FileSizes : \E n_chans \in 1..MaxTagChans :
          reader = NoRecords(n_bytes, n_chans)

NextRecords == ReadTag \/ ReadTagTruncated \/ ReturnRecords \/ CutScan

SpecRecords == InitRecords /\ [][NextRecords]_vars


(***************************************************************************)
(* Properties of the record table of get_records                           *)
(***************************************************************************)
\* the n_scans column of the tags read so far
ScansColumn == [i \in 1..Len(reader.tags) |-> [n_samples |-> reader.tags[i].n_scans]]

\* the sum of n_scans * n_chans over the first k tags
RECURSIVE SamplesBefore(_)
SamplesBefore(k) ==
    IF k = 0 THEN 0
    ELSE SamplesBefore(k - 1) + reader.tags[k].n_scans * reader.tags[k].n_chans

IsRecords == reader.pc \in {"Scan", "ScanDone", "ScanRaised", "ScanCut"}

C24_ScanEndsAtFileSizeOrRaises ==
    IsRecords =>
    /\ \A k \in 1..(Len(reader.rows) - 1) :
          reader.rows[k + 1].data_byte_start
              - reader.rows[k].data_byte_start >= TAG_SIZE
    /\ (reader.pc = "ScanDone" =>
          /\ reader.bytes_read = reader.n_bytes
          /\ \A k \in 1..Len(reader.tags) :
                reader.tags[k].n_scans >= 0 /\ reader.tags[k].n_chans >= 0)


(***************************************************************************)
(* phoenix/mtu5 TimeReaderTS.read_data and read_records: the records of    *)
(* the request are found with samples_to_sources in the table of           *)
(* get_records; the TS file is opened once and, for every record of the    *)
(* request, the bytes are read at data_byte_start and handed to            *)
(* read_record.  reader.pc is                                              *)
(*   TsIdle      no call yet                                               *)
(*   TsLoop      in the loop over the rows of df_to_read, the file open    *)
(*   TsReturned  data is returned and the file closed                      *)
(*   TsRaised    samples_to_sources has raised                             *)
(* reader.reads notes every f.read as the position and the number of bytes *)
(***************************************************************************)
MaxTsRecords == 3   \* records of a TS file
MaxTsScans == 2     \* n_scans of a record

\* the byte of the TS file at a position
ByteAt(pos) == (37 * pos + 5) % 256

\* f.read(n) with the seek before it left out
FileReadFromStart(pos, n) == [k \in 1..n |-> ByteAt(k - 1)]

\* f.seek(pos, 0) then f.read(n)
FileRead(pos, n) == [k \in 1..n |-> ByteAt(pos + k - 1)]

\* the table of get_records for a file of whole records of n_chans channels
RECURSIVE TsTable(_, _)
TsTable(scans, n_chans) ==
    IF Len(scans) = 0 THEN <<>>
    ELSE LET before == TsTable(SubSeq(scans, 1, Len(scans) - 1), n_chans)
             n == Len(before)
             tag_data == [n_scans |-> scans[Len(scans)], n_chans |-> n_chans]
         IN  Append(before,
                    IF n = 0 THEN RecordRow(tag_data, 0, 0)
                    ELSE RecordRow(tag_data, before[n].last_sample + 1,
                                   before[n].data_byte_start
                                     + before[n].n_samples * n_chans
                                       * SAMPLE_SIZE))

\* info.loc["n_samples"] * metadata.n_chans * SAMPLE_SIZE
BytesToRead(info, n_chans) == info.n_samples * n_chans * SAMPLE_SIZE

\* np.empty(shape=(metadata.n_chans, n_samples))
EmptyBlock(n_chans, n_samples) ==
    [c \in 1..n_chans |-> [k \in 1..n_samples |-> Unwritten]]

\* data[:, sample : sample + n_samples_record] = data_record
CopyRecord(data, sample, n_samples_record, data_record) ==
    [c \in 1..Len(data) |->
        [k \in 1..Len(data[c]) |->
            IF sample < k /\ k <= sample + n_samples_record
            THEN data_record[c][k - sample]
            ELSE data[c][k]]]

NoTsRead(n_chans) ==
    [pc |-> "TsIdle", n_chans |-> n_chans, args |-> <<>>,
     df_to_read |-> <<>>, row |-> 0, sample |-> 0, data |-> <<>>,
     open |-> {}, reads |-> <<>>, error |-> <<>>]

\* read_data lines 632-635 and read_records lines 539-542
StartReadRecords ==
    /\ reader.pc = "TsIdle"
    /\ \E read_from \in 0..ColumnSum(data_table, "n_samples", Len(data_table)) :
       \E read_to \in read_from..ColumnSum(data_table, "n_samples",
                                           Len(data_table)) :
          LET r == samples_to_sources(data_table, read_from, read_to)
              n_samples == ColumnSum(r.value, "n_samples_read", Len(r.value))
          IN  reader' =
                IF r.status = "raise"
                THEN [reader EXCEPT !.pc = "TsRaised",
                                    !.args = <<read_from, read_to>>,
                                    !.error = r.error]
                ELSE [reader EXCEPT !.pc = "TsLoop",
                                    !.args = <<read_from, read_to>>,
                                    !.df_to_read = r.value,
                                    !.data = EmptyBlock(reader.n_chans,
                                                        n_samples),
                                    !.open = {"ts_file"}]
    /\ UNCHANGED <<metadata_list, data_table, op, first_call, repeated>>

\* read_records lines 543-557: one row of df_to_read
ReadRecordRow ==
    /\ reader.pc = "TsLoop"
    /\ reader.row < Len(reader.df_to_read)
    /\ LET info == reader.df_to_read[reader.row + 1]
           n_bytes_to_read == BytesToRead(info, reader.n_chans)
           data_bytes == FileRead(info.data_byte_start, n_bytes_to_read)
           data_record == read_record(data_bytes, reader.n_chans,
                                      info.read_from, info.read_to)
       IN  reader' = [reader EXCEPT
             !.row = @ + 1,
             !.reads = Append(@, [pos |-> info.data_byte_start,
                                  n |-> n_bytes_to_read]),
             !.data = CopyRecord(@, reader.sample, info.n_samples_read,
                                 data_record),
             !.sample = @ + info.n_samples_read]
    /\ UNCHANGED <<metadata_list, data_table, op, first_call, repeated>>

\* read_records line 558
ReturnRecordData ==
    /\ reader.pc = "TsLoop"
    /\ reader.row = Len(reader.df_to_read)
    /\ reader' = [reader EXCEPT !.pc = "TsReturned", !.open = {}]
    /\ op' = [NoCall EXCEPT !.name = "read_records", !.status = "ok",
                            !.value = reader.data]
    /\ UNCHANGED <<metadata_list, data_table, first_call, repeated>>

InitReadRecords ==
    /\ metadata_list = <<>>
    /\ op = NoCall
    /\ first_call = NoCall
    /\ repeated = FALSE
    /\ \E n_chans \in 1..MaxTagChans : \E n \in 1..MaxTsRecords :
       \E scans \in [1..n -> 1..MaxTsScans] :
          /\ data_table = TsTable(scans, n_chans)
          /\ reader = NoTsRead(n_chans)

NextReadRecords == StartReadRecords \/ ReadRecordRow \/ ReturnRecordData

SpecReadRecords == InitReadRecords /\ [][NextReadRecords]_vars

(***************************************************************************)
(* Properties of the bytes read by read_records                            *)
(***************************************************************************)
InTsRead == reader.pc \in {"TsLoop", "TsReturned"}

\* the bytes of the file that hold the samples of a row that the request needs
ClippedStart(info) ==
    info.data_byte_start + reader.n_chans * info.read_from * 3

ClippedBytes(info) == reader.n_chans * info.n_samples_read * 3

\* C22 as stated: for every record of the request the reader reads exactly
\* n_chans * n_samples_read * 3 bytes at data_byte_start + n_chans * read_from
\* * 3, so no byte outside the clipped range of samples is read.
C22_ReadsOnlyClippedBytes ==
    InTsRead =>
    \A k \in 1..Len(reader.reads) :
        /\ reader.reads[k].pos = ClippedStart(reader.df_to_read[k])
        /\ reader.reads[k].n = ClippedBytes(reader.df_to_read[k])

\* C22 amended: for every record of the request the reader reads the whole
\* record, n_chans * n_samples * 3 bytes at data_byte_start; the n_chans *
\* n_samples_read * 3 bytes at data_byte_start + n_chans * read_from * 3 lie
\* inside what was read, and the samples written for the record are decoded
\* from those bytes alone.
C22_ReadsWholeRecordDecodesClipped ==
    InTsRead =>
    /\ Len(reader.reads) = reader.row
    /\ \A k \in 1..Len(reader.reads) :
          LET info == reader.df_to_read[k]
              read == reader.reads[k]
              written == ColumnSum(reader.df_to_read, "n_samples_read", k - 1)
          IN  /\ read.pos = info.data_byte_start
              /\ read.n = reader.n_chans * info.n_samples * 3
              /\ read.pos <= ClippedStart(info)
              /\ ClippedStart(info) + ClippedBytes(info) <= read.pos + read.n
              /\ \A c \in 1..reader.n_chans :
                 \A s \in 1..info.n_samples_read :
                    LET at == ClippedStart(info)
                                + ((s - 1) * reader.n_chans + (c - 1)) * 3
                    IN  Encode24(reader.data[c][written + s]) =
                          <<ByteAt(at), ByteAt(at + 1), ByteAt(at + 2)>>

\* the second sample alone of a record of two samples
C22_Witness ==
    /\ reader.pc = "TsReturned"
    /\ reader.n_chans = 2
    /\ reader.args = <<1, 1>>
    /\ Len(data_table) = 1 /\ data_table[1].n_samples = 2
    /\ reader.reads = <<[pos |-> 32, n |-> 12]>>
    /\ ClippedStart(reader.df_to_read[1]) = 38
    /\ ClippedBytes(reader.df_to_read[1]) = 6


(***************************************************************************)
(* lemi/b423e TimeReaderB423E.read_data with limit_chans, called again and *)
(* again with the one metadata object that read_metadata gave.  A record   *)
(* of a B423E file is taken as 16-bit words: two of the timestamp, one of  *)
(* the sample number, two for each of the four channels, PPS and PLL.      *)
(* reader.metadata is the caller's metadata object, reader.calls counts    *)
(* the calls made, op is the last call and first_call the first.           *)
(***************************************************************************)
B423E_CHANS == <<"E1", "E2", "E3", "E4">>

MaxLimitChans == 4   \* channels in limit_chans
MaxLimitUnits == 2   \* files of the recording
MaxLimitCount == 1   \* samples of a file
MaxCalls == 2        \* read_data calls on one metadata object

\* limit_chans is not given
None == <<>>

\* the names limit_chans is made of
LimitNames == {"E1", "E2", "E3", "E4", "Hx"}

\* limit_chans: None or a list of different names
LimitChans ==
    {None} \cup
    {s \in SeqsUpTo(LimitNames, MaxLimitChans) :
        Len(s) > 0 /\ \A i, j \in 1..Len(s) : i # j => s[i] # s[j]}

\* the metadata of read_metadata
MergedMetadata ==
    [chans |-> B423E_CHANS, n_chans |-> Len(B423E_CHANS),
     chans_metadata |-> {B423E_CHANS[i] : i \in 1..Len(B423E_CHANS)}]

\* the data table: B423E_MULT and B423E_ADD columns of every file, Ke[i] and
\* Ae[i] for the channel of index i - 1
LimitTable(counts) ==
    add_cumulative_samples(
        [i \in 1..Len(counts) |->
            [data_file |-> i, n_samples |-> counts[i],
             Ke |-> [c \in 1..4 |-> i + c], Ae |-> [c \in 1..4 |-> c]]])

\* metadata.chans.index(x), counted from 0
ChanIndex(chans, x) ==
    (CHOOSE i \in 1..Len(chans) :
        chans[i] = x /\ \A j \in 1..(i - 1) : chans[j] # x) - 1

\* _get_chans
get_chans(limit_chans, metadata) ==
    IF limit_chans = None
    THEN Returned(<<metadata.chans,
                    [i \in 1..metadata.n_chans |-> i - 1]>>)
    ELSE LET chk == {limit_chans[i] : i \in 1..Len(limit_chans)}
                      \ {metadata.chans[i] : i \in 1..Len(metadata.chans)}
         IN  IF Cardinality(chk) > 0
             THEN Raised([type |-> "TimeDataReadError", chk |-> chk], <<>>)
             ELSE Returned(<<limit_chans,
                             [i \in 1..Len(limit_chans) |->
                                 ChanIndex(metadata.chans, limit_chans[i])]>>)

\* _adjust_metadata_chans: the object that was passed in is changed
adjust_metadata_chans(metadata, chans) ==
    [chans |-> chans, n_chans |-> Len(chans),
     chans_metadata |-> {chans[i] : i \in 1..Len(chans)}]

\* the words of one record of a file: local sample k, counted from 0
RecordWords(data_file, k) ==
    <<k, 0, k,
      RawSample(data_file, 1, k), 0, RawSample(data_file, 2, k), 0,
      RawSample(data_file, 3, k), 0, RawSample(data_file, 4, k), 0,
      1, 1>>

\* f.seek(byte_read_start, 0); f.read(n_bytes_to_read)
RECURSIVE FileWords(_, _, _)
FileWords(data_file, file_from, n_samples_file) ==
    IF n_samples_file = 0 THEN <<>>
    ELSE FileWords(data_file, file_from, n_samples_file - 1)
           \o RecordWords(data_file, file_from + n_samples_file - 1)

\* struct.calcsize(f"=LH{n_chans}l2h"), in words
RecordSize(n_chans) == 2 + 1 + 2 * n_chans + 2

\* one tuple of struct.iter_unpack(record_format, data_bytes)
UnpackWords(w, n_chans) ==
    <<w[1] + 65536 * w[2], w[3]>>
      \o [i \in 1..n_chans |-> w[2 + 2 * i] + 65536 * w[3 + 2 * i]]
      \o <<w[4 + 2 * n_chans], w[5 + 2 * n_chans]>>

\* _parse_records(chans, data_bytes) on words: x[2:7] of every record, one
\* row per field
parse_records_of(chans, data_words) ==
    LET n_chans == Len(chans)
        record_size == RecordSize(n_chans)
        n_records == Len(data_words) \div record_size
        fields == Min(5, n_chans + 2)
    IN  IF Len(data_words) % record_size # 0
        THEN Raised([type |-> "struct.error"], <<>>)
        ELSE Returned(
               [f \in 1..fields |->
                  [k \in 1..n_records |->
                     UnpackWords(SubSeq(data_words, (k - 1) * record_size + 1,
                                        k * record_size), n_chans)[f + 2]]])

\* lines 320-338 for one row: the scaled block of the row
ReadScaledRow(metadata, chan_indices, info) ==
    LET data_words == FileWords(info.data_file, info.read_from,
                                info.n_samples_read)
        parsed == parse_records_of(metadata.chans, data_words)
    IN  IF parsed.status = "raise" THEN parsed
        ELSE IF \E i \in 1..Len(chan_indices) :
                    chan_indices[i] >= Len(parsed.value)
        THEN Raised([type |-> "IndexError"], <<>>)
        ELSE Returned(
               [i \in 1..Len(chan_indices) |->
                  [k \in 1..info.n_samples_read |->
                     parsed.value[chan_indices[i] + 1][k]
                        * info.Ke[chan_indices[i] + 1]
                        + info.Ae[chan_indices[i] + 1]]])

\* the blocks of the rows one after the other, channel by channel
RECURSIVE StitchRows(_, _, _, _)
StitchRows(metadata, chan_indices, df_to_read, k) ==
    IF k = 0 THEN Returned([i \in 1..Len(chan_indices) |-> <<>>])
    ELSE LET before == StitchRows(metadata, chan_indices, df_to_read, k - 1)
             block == ReadScaledRow(metadata, chan_indices, df_to_read[k])
         IN  IF before.status = "raise" THEN before
             ELSE IF block.status = "raise" THEN block
             ELSE Returned([i \in 1..Len(chan_indices) |->
                              before.value[i] \o block.value[i]])

\* read_data: what the call gives, and the caller's metadata after it
read_data(limit_chans, metadata, df, read_from, read_to) ==
    LET got == get_chans(limit_chans, metadata)
        chans == got.value[1]
        chan_indices == got.value[2]
        res == samples_to_sources(df, read_from, read_to)
        data == StitchRows(metadata, chan_indices, res.value, Len(res.value))
    IN  IF got.status = "raise"
        THEN [status |-> "raise", error |-> got.error, value |-> <<>>,
              metadata |-> metadata]
        ELSE IF res.status = "raise"
        THEN [status |-> "raise", error |-> res.error, value |-> <<>>,
              metadata |-> metadata]
        ELSE IF data.status = "raise"
        THEN [status |-> "raise", error |-> data.error, value |-> <<>>,
              metadata |-> metadata]
        ELSE [status |-> "ok", error |-> <<>>,
              value |-> [chans |-> chans, chan_indices |-> chan_indices,
                         data |-> data.value],
              metadata |-> adjust_metadata_chans(metadata, chans)]

NoLimitRead(limit_chans, read_from, read_to) ==
    [pc |-> "Session", limit_chans |-> limit_chans,
     args |-> <<read_from, read_to>>, metadata |-> MergedMetadata,
     calls |-> 0]

\* one read_data call with the reader's limit_chans and the session's range
ReadDataLimitChans ==
    /\ reader.pc = "Session"
    /\ reader.calls < MaxCalls
    /\ LET r == read_data(reader.limit_chans, reader.metadata, data_table,
                          reader.args[1], reader.args[2])
       IN  /\ op' = [NoCall EXCEPT !.name = "read_data",
                                   !.args = reader.args,
                                   !.status = r.status, !.error = r.error,
                                   !.value = r.value]
           /\ reader' = [reader EXCEPT !.metadata = r.metadata,
                                       !.calls = @ + 1]
    /\ first_call' = IF reader.calls = 0 THEN op' ELSE first_call
    /\ repeated' = (reader.calls > 0)
    /\ UNCHANGED <<metadata_list, data_table>>

InitLimit ==
    /\ metadata_list = <<>>
    /\ op = NoCall
    /\ first_call = NoCall
    /\ repeated = FALSE
    /\ \E n \in 1..MaxLimitUnits : \E c \in [1..n -> 1..MaxLimitCount] :
          data_table = LimitTable(c)
    /\ \E limit_chans \in LimitChans :
       \E read_from \in 0..TotalSamples(data_table) :
       \E read_to \in read_from..TotalSamples(data_table) :
          reader = NoLimitRead(limit_chans, read_from, read_to)

NextLimit == ReadDataLimitChans

SpecLimit == InitLimit /\ [][NextLimit]_vars

(***************************************************************************)
(* Properties of repeated reads with limit_chans                           *)
(***************************************************************************)
IsLimitRead == reader.pc = "Session" /\ reader.calls > 0

\* C25: read_data with limit_chans leaves the caller's chans, n_chans and
\* chans_metadata as they were, and every later call with the same metadata
\* and range gives what the first call gave: the same channels from the same
\* record fields with the same coefficients.
C25_MetadataUnchangedReadsRepeat ==
    (IsLimitRead /\ reader.limit_chans # None) =>
    /\ reader.metadata = MergedMetadata
    /\ (repeated => op = first_call)


(***************************************************************************)
(* lemi/b423e.make_B423E_metadata: the list of the files is validated and  *)
(* merged into the metadata of the recording                               *)
(***************************************************************************)
\* min([...]) and max([...]) of a list that is not empty
ListMin(S) == CHOOSE x \in S : \A y \in S : x <= y

ListMax(S) == CHOOSE x \in S : \A y \in S : x >= y

\* _merge_metadata: the times and the number of samples of the recording
merge_metadata(ml) ==
    [fs |-> ml[1].fs, chans |-> ml[1].chans, n_chans |-> ml[1].n_chans,
     first_time |-> ListMin({ml[i].first_time : i \in 1..Len(ml)}),
     last_time |-> ListMax({ml[i].last_time : i \in 1..Len(ml)}),
     n_samples |-> ColumnSum(ml, "n_samples", Len(ml))]

\* make_B423E_metadata lines 101-104, p the order sort_values left the rows in
make_B423E_metadata(ml, p) ==
    LET consistent == validate_consistency(ml)
        continuous == validate_continuous(ml, p)
    IN  IF consistent.status = "raise" THEN consistent
        ELSE IF continuous.status = "raise" THEN continuous
        ELSE Returned(merge_metadata(ml))

MakeMetadata ==
    /\ op = NoCall
    /\ \E p \in SortValues(metadata_list) :
        /\ op' = [name |-> "make_B423E_metadata", args |-> <<>>]
                 @@ make_B423E_metadata(metadata_list, p)
        /\ UNCHANGED <<metadata_list, data_table, first_call, repeated, reader>>

NextMerge == MakeMetadata

SpecMerge == InitBuild /\ [][NextMerge]_vars

(***************************************************************************)
(* Properties of the merged metadata                                       *)
(***************************************************************************)
IsMerged == op.name = "make_B423E_metadata" /\ op.status = "ok"

\* two files of the list hold a sample of the same time
OverlapInList ==
    \E i, j \in 1..Len(metadata_list) :
        /\ i # j
        /\ metadata_list[i].first_time <= metadata_list[j].first_time
        /\ metadata_list[j].first_time <= metadata_list[i].last_time

\* C26: for every list that validate_consistency and validate_continuous
\* accept, the merged metadata has n_samples = round((last_time - first_time)
\* * fs) + 1, and no two units of the list overlap in time.
C26_MergedCountMatchesSpan ==
    IsMerged =>
    /\ op.value.n_samples =
          to_n_samples(op.value.last_time - op.value.first_time, op.value.fs)
    /\ ~OverlapInList


(***************************************************************************)
(* metronix/ats TimeReaderATS.read_metadata: the recording section of the  *)
(* XML header gives the start and the stop time, the global section fs and *)
(* the number of channels, and every output channel its own num_samples.   *)
(* Times are in ticks, counted from the start time of the header.          *)
(***************************************************************************)
MaxAtsStop == 4     \* latest stop time of a header, in ticks
MaxAtsChans == 2    \* channels of a header
MaxAtsCount == 3    \* num_samples of a channel

\* the headers: recording section, global section and the num_samples of
\* the output channels
AtsHeaders ==
    [first_time : {0}, stop_time : 0..MaxAtsStop,
     fs : {1, TicksPerSecond}, n_chans : 1..MaxAtsChans,
     chan_samples : {s \in SeqsUpTo(0..MaxAtsCount, MaxAtsChans) : Len(s) > 0}]

\* _read_common_metadata
read_common_metadata(root) ==
    LET first_time == root.first_time
        last_time == root.stop_time - SamplePeriod(root.fs)
        n_samples == to_n_samples(last_time - first_time, root.fs)
    IN  [fs |-> root.fs, n_chans |-> root.n_chans, n_samples |-> n_samples,
         first_time |-> first_time, last_time |-> last_time]

\* _set_n_samples, chan_samples the n_samples of the channels
set_n_samples(time_dict, chan_samples) ==
    LET rec_samples == time_dict.n_samples
        n_samples == ListMin({chan_samples[i] : i \in 1..Len(chan_samples)})
    IN  IF rec_samples # n_samples
        THEN LET updated == Min(n_samples, rec_samples)
                 duration == SamplePeriod(time_dict.fs) * (updated - 1)
             IN  [time_dict EXCEPT !.n_samples = updated,
                                   !.last_time = time_dict.first_time + duration]
        ELSE time_dict

\* read_metadata lines 137-149
read_metadata(root) ==
    LET time_dict == read_common_metadata(root)
    IN  IF time_dict.n_chans # Len(root.chan_samples)
        THEN Raised(MetadataReadError("Mismatch between n_chans and channels",
                                      {}), <<>>)
        ELSE Returned(set_n_samples(time_dict, root.chan_samples))

ReadMetadataATS ==
    /\ op = NoCall
    /\ reader.pc = "Header"
    /\ op' = [name |-> "read_metadata", args |-> <<reader.root>>]
             @@ read_metadata(reader.root)
    /\ UNCHANGED <<metadata_list, data_table, first_call, repeated, reader>>

InitATS ==
    /\ metadata_list = <<>>
    /\ data_table = <<>>
    /\ op = NoCall
    /\ first_call = NoCall
    /\ repeated = FALSE
    /\ \E root \in AtsHeaders : reader = [pc |-> "Header", root |-> root]

NextATS == ReadMetadataATS

SpecATS == InitATS /\ [][NextATS]_vars

(***************************************************************************)
(* Properties of the ATS metadata                                          *)
(***************************************************************************)
IsATSMetadata == op.name = "read_metadata" /\ op.status = "ok"

\* C27: after _read_common_metadata and _set_n_samples, for every stop time
\* of the header and every num_samples of the channels, last_time is the time
\* of the last of the n_samples samples, n_samples = (last_time - first_time)
\* * fs + 1, and n_samples is no larger than the num_samples of any channel.
C27_LastTimeIsLastSample ==
    IsATSMetadata =>
    LET md == op.value
        chan_samples == op.args[1].chan_samples
    IN  /\ md.last_time =
             md.first_time + (md.n_samples - 1) * SamplePeriod(md.fs)
        /\ md.n_samples * TicksPerSecond =
             (md.last_time - md.first_time) * md.fs + TicksPerSecond
        /\ \A i \in 1..Len(chan_samples) : md.n_samples <= chan_samples[i]


(***************************************************************************)
(* miniseed/mseed get_time_data for an id_map of one trace: the table has  *)
(* a row for every miniseed file, with the first and the last time of the  *)
(* trace in that file; the samples of a file are at first_time + j / fs.   *)
(* Times are in ticks.  The files are given in any order and at any times: *)
(* apart, touching or over one another.                                    *)
(***************************************************************************)
MaxSeedFiles == 2     \* miniseed files of the directory
MaxSeedTime == 3      \* latest first_time of a file, in ticks
MaxSeedSamples == 2   \* samples of the trace in a file

\* a cell of the output that holds np.nan
NaN == <<>>

\* the sample of a file at a time
SeedValue(data_file, t) == 100 * data_file + t

SeedRow(i, first_time, n, fs) ==
    [data_file |-> i, trace_id |-> "trace", trace_index |-> 0, fs |-> fs,
     first_time |-> first_time,
     last_time |-> first_time + (n - 1) * SamplePeriod(fs)]

\* get_table for streams that hold the trace
IsSeedTable(table) ==
    \E n \in 1..MaxSeedFiles : \E fs \in {1, TicksPerSecond} :
    \E t \in [1..n -> 0..MaxSeedTime] :
    \E c \in [1..n -> 1..MaxSeedSamples] :
        table = [i \in 1..n |-> SeedRow(i, t[i], c[i], fs)]

\* get_first_last_times: every file holds the one trace
get_first_last_times(table) ==
    <<ListMin({table[i].first_time : i \in 1..Len(table)}),
      ListMax({table[i].last_time : i \in 1..Len(table)})>>

\* get_streams_to_read
get_streams_to_read(trace_id, table, from_time, to_time) ==
    LET table_trace ==
            SelectSeq(SelectSeq(table, LAMBDA r : r.trace_id = trace_id),
                      LAMBDA r : ~(r.first_time > to_time
                                   \/ r.last_time < from_time))
    IN  [i \in 1..Len(table_trace) |->
            [data_file |-> table_trace[i].data_file,
             trace_index |-> table_trace[i].trace_index,
             read_from |-> IF table_trace[i].first_time > from_time
                           THEN table_trace[i].first_time ELSE from_time,
             read_to |-> IF table_trace[i].last_time > to_time
                         THEN to_time ELSE table_trace[i].last_time]]

\* trace.slice(starttime, endtime): the samples of the file in the interval,
\* in order of time
TraceSlice(file, read_from, read_to) ==
    LET dt == SamplePeriod(file.fs)
        n == (file.last_time - file.first_time) \div dt + 1
        inside(j) == file.first_time + (j - 1) * dt >= read_from
                     /\ file.first_time + (j - 1) * dt <= read_to
        times == SelectSeq([j \in 1..n |-> j], inside)
    IN  [k \in 1..Len(times) |->
            <<SeedValue(file.data_file, file.first_time + (times[k] - 1) * dt)>>]

ValueError(message) == [type |-> "ValueError", message |-> message]

\* get_stream_data
get_stream_data(dt, file, read_from, read_to) ==
    IF (read_to - read_from) % dt # 0
    THEN Raised(ValueError("Number of samples expected is not an integer"),
                <<>>)
    ELSE LET n_samples_expected == (read_to - read_from) \div dt + 1
             subtrace == TraceSlice(file, read_from, read_to)
         IN  IF Len(subtrace) # n_samples_expected
             THEN Raised(ValueError("samples expected != found"), <<>>)
             ELSE Returned(subtrace)

\* data[data_sample_from : data_sample_to + 1] = get_stream_data(...)
WriteSlice(data, data_sample_from, data_sample_to, values) ==
    [k \in 1..Len(data) |->
        IF data_sample_from < k /\ k <= data_sample_to + 1
        THEN values[k - data_sample_from] ELSE data[k]]

\* get_trace_data after k rows of streams_to_read: the data, and for every
\* position of it the number of rows that have written it
RECURSIVE TraceRows(_, _, _, _, _, _)
TraceRows(fs, table, streams_to_read, from_time, n_samples, k) ==
    IF k = 0
    THEN Returned([data |-> [i \in 1..n_samples |-> NaN],
                   writes |-> [i \in 1..n_samples |-> 0]])
    ELSE LET before == TraceRows(fs, table, streams_to_read, from_time,
                                 n_samples, k - 1)
             dt == SamplePeriod(fs)
             row == streams_to_read[k]
             file == table[CHOOSE i \in 1..Len(table) :
                              table[i].data_file = row.data_file]
             data_sample_from == (row.read_from - from_time) \div dt
             data_sample_to == (row.read_to - from_time) \div dt
             read == get_stream_data(dt, file, row.read_from, row.read_to)
         IN  IF before.status = "raise" THEN before
             ELSE IF (row.read_from - from_time) % dt # 0
             THEN Raised(ValueError("Date sample from is not an integer"),
                         <<>>)
             ELSE IF (row.read_to - from_time) % dt # 0
             THEN Raised(ValueError("Date sample to is not an integer"), <<>>)
             ELSE IF read.status = "raise" THEN read
             ELSE Returned(
                    [data |-> WriteSlice(before.value.data, data_sample_from,
                                         data_sample_to, read.value),
                     writes |-> [i \in 1..n_samples |->
                                   before.value.writes[i]
                                   + (IF data_sample_from < i
                                         /\ i <= data_sample_to + 1
                                      THEN 1 ELSE 0)]])

get_trace_data(fs, table, streams_to_read, from_time, n_samples) ==
    TraceRows(fs, table, streams_to_read, from_time, n_samples,
              Len(streams_to_read))

NoDataInInterval(first_time, last_time, from_time, to_time) ==
    [type |-> "NoDataInInterval", first_time |-> first_time,
     last_time |-> last_time, from_time |-> from_time, to_time |-> to_time]

\* (first_time > last_time) or (to_time < first_time)
NoDataTest(first_time, last_time, from_time, to_time) ==
    (first_time > last_time) \/ (to_time < first_time)

\* get_time_data; allocated is the number of samples np.empty was called for
get_time_data(fs, table, first_time, last_time, from_time, to_time) ==
    LET from_adj == IF from_time < first_time THEN first_time ELSE from_time
        to_adj == IF to_time > last_time THEN last_time ELSE to_time
        dt == SamplePeriod(fs)
        n_samples == (to_adj - from_adj) \div dt + 1
        streams_to_read == get_streams_to_read("trace", table, from_adj, to_adj)
        trace == get_trace_data(fs, table, streams_to_read, from_adj, n_samples)
    IN  IF NoDataTest(first_time, last_time, from_time, to_time)
        THEN Raised(NoDataInInterval(first_time, last_time, from_time,
                                     to_time), <<>>)
             @@ [allocated |-> <<>>]
        ELSE IF (to_adj - from_adj) % dt # 0
        THEN Raised(ValueError("Number of calculated samples is not an integer"),
                    <<>>) @@ [allocated |-> <<>>]
        ELSE IF n_samples < 0
        THEN Raised(ValueError("negative dimensions are not allowed"), <<>>)
             @@ [allocated |-> <<n_samples>>]
        ELSE IF trace.status = "raise"
        THEN trace @@ [allocated |-> <<n_samples, n_samples>>]
        ELSE Returned([first_time |-> from_adj, last_time |-> to_adj,
                       n_samples |-> n_samples, data |-> trace.value.data,
                       writes |-> trace.value.writes,
                       data_files |-> [i \in 1..Len(streams_to_read) |->
                                          streams_to_read[i].data_file]])
             @@ [allocated |-> <<n_samples, n_samples>>]

\* one call of get_time_data on the table of the directory
GetTimeData ==
    /\ op = NoCall
    /\ reader.pc = "Streams"
    /\ LET times == get_first_last_times(data_table)
       IN  \E from_time \in (-1)..(times[2] + 2) :
           \E to_time \in from_time..(times[2] + 2) :
              op' = [name |-> "get_time_data",
                     args |-> <<times[1], times[2], from_time, to_time>>]
                    @@ get_time_data(data_table[1].fs, data_table, times[1],
                                     times[2], from_time, to_time)
    /\ UNCHANGED <<metadata_list, data_table, first_call, repeated, reader>>

InitSeed ==
    /\ metadata_list = <<>>
    /\ IsSeedTable(data_table)
    /\ op = NoCall
    /\ first_call = NoCall
    /\ repeated = FALSE
    /\ reader = [pc |-> "Streams"]

NextSeed == GetTimeData

SpecSeed == InitSeed /\ [][NextSeed]_vars

(***************************************************************************)
(* Properties of get_time_data                                             *)
(***************************************************************************)
IsGetTimeData == op.name = "get_time_data"

\* C28: get_time_data raises NoDataInInterval whenever [from_time, to_time]
\* does not meet [first_time, last_time], from_time > last_time included, and
\* never allocates or returns data of a number of samples that is not
\* positive.
C28_NoDataOutsideSpan ==
    IsGetTimeData =>
    LET first_time == op.args[1]
        last_time == op.args[2]
        from_time == op.args[3]
        to_time == op.args[4]
    IN  /\ (to_time < first_time \/ from_time > last_time) =>
              (op.status = "raise" /\ op.error.type = "NoDataInInterval")
        /\ \A k \in 1..Len(op.allocated) : op.allocated[k] > 0
        /\ op.status = "ok" => op.value.n_samples > 0

\* C30: every one of the n_samples positions of the data of a trace is
\* written by exactly one row of streams_to_read: a hole between the files
\* inside [from_time, to_time] makes the read fail and never gives NaN, and
\* no position is written from two files.
C30_EveryPositionWrittenOnce ==
    (IsGetTimeData /\ op.status = "ok") =>
    /\ Len(op.value.data) = op.value.n_samples
    /\ \A k \in 1..op.value.n_samples :
          /\ op.value.writes[k] = 1
          /\ op.value.data[k] # NaN


(***************************************************************************)
(* miniseed/mseed.reformat: the span from_time..to_time, by default that   *)
(* of the data, is widened to whole chunks and get_time_data is called for *)
(* every chunk; a chunk of no data is passed over.  reader.pc is           *)
(*   Reformat   the files are read and the table made                      *)
(*   Chunks     in the loop over zip(starts, ends), reader.k chunks done    *)
(*   Reformatted  the loop is over                                         *)
(*   Failed     get_time_data has raised something that is not caught      *)
(***************************************************************************)
MaxChunkFiles == 1     \* miniseed files of the directory
MaxChunkStart == 2     \* latest first_time of a file, in ticks
MaxChunkSamples == 3   \* samples of the trace in a file
MaxChunkTime == 3      \* longest chunk_time, in ticks

IsChunkTable(table) ==
    \E n \in 1..MaxChunkFiles : \E fs \in {1, TicksPerSecond} :
    \E t \in [1..n -> 0..MaxChunkStart] :
    \E c \in [1..n -> 1..MaxChunkSamples] :
        table = [i \in 1..n |-> SeedRow(i, t[i], c[i], fs)]

\* from_time and to_time of reformat: None or the time in a tuple
OptionalTimes == {None} \cup {<<t>> : t \in 0..(MaxChunkStart + 1)}

\* Timestamp.floor(freq)
FloorTime(t, freq) == (t \div freq) * freq

\* Timestamp.ceil(freq)
CeilTime(t, freq) == 0 - ((0 - t) \div freq) * freq

\* pd.date_range(start, end, freq)
date_range(start, end, freq) ==
    IF end < start THEN <<>>
    ELSE [k \in 1..((end - start) \div freq + 1) |-> start + (k - 1) * freq]

\* ends, one sample before the starts of the next chunks
ChunkEnds(from_time, to_time, chunk_time, fs) ==
    LET ends == date_range(from_time + chunk_time, to_time, chunk_time)
    IN  [k \in 1..Len(ends) |-> ends[k] - SamplePeriod(fs)]

\* lines 487-507
StartReformat ==
    /\ reader.pc = "Reformat"
    /\ LET times == get_first_last_times(data_table)
           given_from == IF reader.from_time = None THEN times[1]
                         ELSE reader.from_time[1]
           given_to == IF reader.to_time = None THEN times[2]
                       ELSE reader.to_time[1]
           from_time == FloorTime(given_from, reader.chunk_time)
           to_time == CeilTime(given_to, reader.chunk_time)
       IN  reader' = [reader EXCEPT
             !.pc = "Chunks",
             !.first_time = times[1], !.last_time = times[2],
             !.span = <<from_time, to_time>>,
             !.starts = date_range(from_time, to_time - reader.chunk_time,
                                   reader.chunk_time),
             !.ends = ChunkEnds(from_time, to_time, reader.chunk_time,
                                data_table[1].fs)]
    /\ UNCHANGED <<metadata_list, data_table, op, first_call, repeated>>

\* lines 508-524: one chunk of zip(starts, ends)
ReformatChunk ==
    /\ reader.pc = "Chunks"
    /\ reader.k < Min(Len(reader.starts), Len(reader.ends))
    /\ LET date_start == reader.starts[reader.k + 1]
           date_end == reader.ends[reader.k + 1]
           r == get_time_data(data_table[1].fs, data_table, reader.first_time,
                              reader.last_time, date_start, date_end)
       IN  /\ op' = [name |-> "get_time_data",
                     args |-> <<reader.first_time, reader.last_time,
                                date_start, date_end>>] @@ r
           /\ reader' =
                IF r.status = "ok"
                THEN [reader EXCEPT !.k = @ + 1,
                                    !.written = Append(@, r.value)]
                ELSE IF r.error.type = "NoDataInInterval"
                THEN [reader EXCEPT !.k = @ + 1]
                ELSE [reader EXCEPT !.pc = "Failed", !.error = r.error]
    /\ UNCHANGED <<metadata_list, data_table, first_call, repeated>>

\* the loop is over
EndReformat ==
    /\ reader.pc = "Chunks"
    /\ reader.k = Min(Len(reader.starts), Len(reader.ends))
    /\ reader' = [reader EXCEPT !.pc = "Reformatted"]
    /\ UNCHANGED <<metadata_list, data_table, op, first_call, repeated>>

InitReformat ==
    /\ metadata_list = <<>>
    /\ IsChunkTable(data_table)
    /\ op = NoCall
    /\ first_call = NoCall
    /\ repeated = FALSE
    /\ \E chunk_time \in 2..MaxChunkTime :
       \E from_time \in OptionalTimes : \E to_time \in OptionalTimes :
          reader = [pc |-> "Reformat", chunk_time |-> chunk_time,
                    from_time |-> from_time, to_time |-> to_time,
                    first_time |-> 0, last_time |-> 0, span |-> <<>>,
                    starts |-> <<>>, ends |-> <<>>, k |-> 0,
                    written |-> <<>>, error |-> <<>>]

NextReformat == StartReformat \/ ReformatChunk \/ EndReformat

SpecReformat == InitReformat /\ [][NextReformat]_vars

(***************************************************************************)
(* Properties of the chunks of reformat                                    *)
(***************************************************************************)
InChunks == reader.pc \in {"Chunks", "Reformatted", "Failed"}

\* the times of the samples of the files
SampleTimes ==
    UNION {{data_table[i].first_time + j * SamplePeriod(data_table[i].fs) :
              j \in 0..((data_table[i].last_time - data_table[i].first_time)
                          \div SamplePeriod(data_table[i].fs))} :
           i \in 1..Len(data_table)}

\* the chunks that hold a time
ChunksOf(t) ==
    {k \in 1..Len(reader.starts) :
        reader.starts[k] <= t /\ t <= reader.ends[k]}

\* C29: the chunks of reformat follow one another and are disjoint: there are
\* as many ends as starts, chunk k (from 0) covers start + k * chunk_time to
\* start + (k + 1) * chunk_time less one sample period, every sample time in
\* [floor(from_time), ceil(to_time)) is in exactly one chunk and no sample
\* time is in two chunks.
C29_ChunksPartitionSamples ==
    InChunks =>
    /\ Len(reader.starts) = Len(reader.ends)
    /\ \A k \in 1..Len(reader.starts) :
          /\ reader.starts[k] = reader.span[1] + (k - 1) * reader.chunk_time
          /\ reader.ends[k] = reader.span[1] + k * reader.chunk_time
                                - SamplePeriod(data_table[1].fs)
    /\ \A t \in SampleTimes :
          /\ Cardinality(ChunksOf(t)) <= 1
          /\ (reader.span[1] <= t /\ t < reader.span[2]) =>
                Cardinality(ChunksOf(t)) = 1

====
